---- MODULE Spec2Model ----
(***************************************************************************)
(* A model of the demo agents of prod-blip/aicookbook: the LangGraph       *)
(* pipelines (bank statement analyzer, data analysis, itinerary draft and  *)
(* final, news, GitHub explorer, Zerodha, PDF and audio RAG, blog writer)   *)
(* and the Streamlit sessions that drive them.                             *)
(*                                                                         *)
(* One behaviour is one UI session of one application (app, chosen in      *)
(* Init).  A graph invocation is the sequence of node actions between the  *)
(* action that starts it (pc becomes the entry node) and pc reaching       *)
(* "END", "RAISED" (an exception left the graph) or "INTERRUPT" (the blog  *)
(* graph stopped before an interrupt_before node).                         *)
(*                                                                         *)
(* External services (LLM, PDF loader, vector store, MCP server, geocoder) *)
(* are the environment: each call's reply is drawn from a small set.       *)
(***************************************************************************)
EXTENDS Integers, Sequences, FiniteSets, TLC

VARIABLES
    app,        \* which application this session runs
    ui,         \* st.session_state of the application (a record)
    btn,        \* the trigger button as last rendered: "enabled", "disabled", "hidden"
    pc,         \* position of the graph invocation: "idle", a node, "END", "RAISED", "INTERRUPT"
    gs,         \* the graph state (channel values) of the invocation in progress
    ran,        \* the nodes the current invocation has executed, in order
    outcome,    \* how each executed node ended: "ok", "skipped", "failed", "raised"
    calls,      \* the external calls the current invocation has issued, in order
    inflight,   \* how many of them have not returned yet
    local,      \* local variables of a node that is between two awaits
    nruns,      \* graph invocations started so far in this session
    click       \* the last user interaction the script handled

vars == <<app, ui, btn, pc, gs, ran, outcome, calls, inflight, local, nruns, click>>

----------------------------------------------------------------------------
(* Bounds of the model.                                                    *)

MaxPages == 1
MaxTxns == 2
MaxChunks == 2
MaxPlan == 4
MaxRuns == 3
MaxToolRounds == 1
MaxFeedback == 1
MaxStreams == 7
MaxNew == 2

----------------------------------------------------------------------------
(* Python values.                                                          *)

\* Optional[T]: None is the empty tuple, a present value a one-element tuple.
None == <<>>
Some(x) == <<x>>

RECURSIVE SumSeq(_)
SumSeq(s) == IF s = <<>> THEN 0 ELSE Head(s) + SumSeq(Tail(s))

Range(s) == {s[i] : i \in DOMAIN s}

\* All sequences over S of length at most n.
SeqsUpTo(S, n) == UNION {[1..k -> S] : k \in 0..n}

----------------------------------------------------------------------------
(* LangGraph: how a node's returned dictionary updates the state.  A key   *)
(* annotated with operator.add is combined with the old value, any other   *)
(* key is overwritten.  Every node of this repository returns {**state,    *)
(* ...}, so the reducer keys come back with their current value unless the *)
(* node overrides them.                                                    *)

ReducerKeys == {"messages", "errors", "tool_results"}

ApplyUpdate(state, update) ==
    [k \in DOMAIN state |->
        IF k \in DOMAIN update
        THEN IF k \in ReducerKeys THEN state[k] \o update[k] ELSE update[k]
        ELSE state[k]]

\* {**state, k1: v1, ...}: the whole state with some keys replaced.
Spread(state, changes) ==
    [k \in DOMAIN state |-> IF k \in DOMAIN changes THEN changes[k] ELSE state[k]]

\* A node ran, awaiting the external calls issued one after the other:
\* apply its update, record it, move to the next position.
NodeDone(node, issued, update, how, next) ==
    /\ gs' = ApplyUpdate(gs, update)
    /\ calls' = calls \o issued
    /\ ran' = Append(ran, node)
    /\ outcome' = Append(outcome, how)
    /\ pc' = next

\* A node raised: the exception leaves the graph invocation.
NodeRaised(node, issued) ==
    /\ gs' = gs
    /\ calls' = calls \o issued
    /\ ran' = Append(ran, node)
    /\ outcome' = Append(outcome, "raised")
    /\ pc' = "RAISED"

\* A new invocation starts at node entry with state initial.
StartRun(entry, initial) ==
    /\ pc' = entry
    /\ gs' = initial
    /\ ran' = <<>>
    /\ outcome' = <<>>
    /\ calls' = <<>>
    /\ local' = <<>>
    /\ nruns' = nruns + 1

\* The caller has the invocation's result: nothing of it is kept but what
\* the caller stored.
RunOver ==
    /\ pc' = "idle" /\ gs' = <<>> /\ ran' = <<>> /\ outcome' = <<>>
    /\ calls' = <<>> /\ local' = <<>>

\* What a node leaves alone: the session and the calls in flight.
NodeFrame == UNCHANGED <<app, ui, btn, inflight, local, nruns, click>>

----------------------------------------------------------------------------
(* Bank statement analyzer: ai_agents/bank_statement_analyzer/agent.py     *)

MIN_RECURRING_COUNT == 2
TOP_MERCHANTS_LIMIT == 10

\* An uploaded PDF: whether PyPDFLoader can read it, and the length of the
\* text of each page.
PdfFiles ==
    {[readable |-> FALSE, pages |-> <<>>]}
    \cup {[readable |-> TRUE, pages |-> p] : p \in SeqsUpTo(0..1, MaxPages)}

Categories == {"Food & Dining", "Others"}
Merchants == {"m1", "m2"}

\* Transactions as the parser prompt asks for them; amounts in hundredths.
Amounts == {1, 2}
Txns == [date : {"d1"}, description : Merchants, amount : Amounts,
         type : {"debit", "credit"}]
TxnLists == SeqsUpTo(Txns, MaxTxns)

WithCategory(t, c) ==
    [date |-> t.date, description |-> t.description, amount |-> t.amount,
     type |-> t.type, category |-> c]
HasCategory(t) == "category" \in DOMAIN t

BankStatementState(pdf) ==
    [pdf_path |-> pdf, raw_text |-> None, page_count |-> None,
     transactions |-> None, transaction_count |-> None, parsing_metadata |-> None,
     categorized_transactions |-> None, category_totals |-> None,
     total_debit |-> None, total_credit |-> None, net_balance_change |-> None,
     recurring_expenses |-> None, daily_spending |-> None, top_merchants |-> None,
     chart_data |-> None, messages |-> <<>>, errors |-> <<>>]

\* len("\n".join(pages))
JoinedLen(pages) ==
    IF pages = <<>> THEN 0 ELSE SumSeq(pages) + Len(pages) - 1

\* The fields each step's docstring lists under "Updates:".
BankUpdates(node) ==
    CASE node = "load_pdf" -> {"raw_text", "page_count"}
      [] node = "parse_transactions" ->
            {"transactions", "transaction_count", "parsing_metadata"}
      [] node = "categorize_transactions" -> {"categorized_transactions"}
      [] node = "analyze_spending" ->
            {"category_totals", "total_debit", "total_credit", "net_balance_change",
             "recurring_expenses", "daily_spending", "top_merchants"}
      [] node = "prepare_visualizations" -> {"chart_data"}
      [] OTHER -> {}

bank_load_pdf ==
    /\ app = "bank" /\ pc = "load_pdf"
    /\ LET pdf == gs.pdf_path IN
       IF pdf.readable
       THEN NodeDone("load_pdf", <<>>,
                Spread(gs, [raw_text |-> Some(JoinedLen(pdf.pages)),
                            page_count |-> Some(Len(pdf.pages))]),
                "ok", "parse_transactions")
       ELSE NodeDone("load_pdf", <<>>,
                Spread(gs, [raw_text |-> None, page_count |-> Some(0),
                            errors |-> <<"PDF loading failed">>]),
                "failed", "parse_transactions")
    /\ NodeFrame

\* The parser LLM's reply: the call raises, the text is not JSON, the JSON
\* has "transactions": null, or it is an object with a transaction list
\* (absent key: the empty list) and possibly the account metadata.
ParseReplies ==
    {[kind |-> k, txns |-> <<>>, meta |-> "Unknown"] :
        k \in {"raise", "bad_json", "null_list"}}
    \cup {[kind |-> "ok", txns |-> l, meta |-> m] :
            l \in TxnLists, m \in {"XXXX1234", "Unknown"}}

parse_transactions ==
    /\ app = "bank" /\ pc = "parse_transactions"
    /\ IF gs.raw_text = None \/ gs.raw_text = Some(0)
       THEN NodeDone("parse_transactions", <<>>, gs, "skipped", "categorize_transactions")
       ELSE \E r \in ParseReplies :
            CASE r.kind = "ok" ->
                    NodeDone("parse_transactions", <<"llm">>,
                        Spread(gs, [transactions |-> Some(r.txns),
                                    transaction_count |-> Some(Len(r.txns)),
                                    parsing_metadata |-> Some(r.meta)]),
                        "ok", "categorize_transactions")
              [] r.kind = "bad_json" ->
                    NodeDone("parse_transactions", <<"llm">>,
                        Spread(gs, [transactions |-> None,
                                    transaction_count |-> Some(0),
                                    errors |-> <<"Transaction parsing failed: Invalid JSON from LLM">>]),
                        "failed", "categorize_transactions")
              [] OTHER ->
                    NodeDone("parse_transactions", <<"llm">>,
                        Spread(gs, [transactions |-> None,
                                    transaction_count |-> Some(0),
                                    errors |-> <<"Transaction parsing failed">>]),
                        "failed", "categorize_transactions")
    /\ NodeFrame

\* The categorizer LLM's reply for the transactions txns: the call raises,
\* the text is not JSON, the JSON is null (len(None) raises), the array is
\* empty, the items come back without a category, or each item comes back
\* with a category.
CategorizeReplies(txns) ==
    {[kind |-> k, list |-> <<>>] : k \in {"raise", "bad_json", "null", "empty"}}
    \cup {[kind |-> "ok", list |-> txns]}
    \cup {[kind |-> "ok", list |-> [i \in DOMAIN txns |-> WithCategory(txns[i], c[i])]] :
            c \in [DOMAIN txns -> Categories]}

categorize_transactions ==
    /\ app = "bank" /\ pc = "categorize_transactions"
    /\ IF gs.transactions = None \/ gs.transactions = Some(<<>>)
       THEN NodeDone("categorize_transactions", <<>>, gs, "skipped", "analyze_spending")
       ELSE \E r \in CategorizeReplies(gs.transactions[1]) :
            IF r.kind \in {"ok", "empty"}
            THEN NodeDone("categorize_transactions", <<"llm">>,
                    Spread(gs, [categorized_transactions |-> Some(r.list)]),
                    "ok", "analyze_spending")
            ELSE NodeDone("categorize_transactions", <<"llm">>,
                    Spread(gs, [categorized_transactions |-> gs.transactions,
                                errors |-> <<"Categorization failed">>]),
                    "failed", "analyze_spending")
    /\ NodeFrame

IsDebit(t) == t.type = "debit"
IsCredit(t) == t.type = "credit"
SumAmount(txns) == SumSeq([i \in DOMAIN txns |-> txns[i].amount])

\* round(total / n) to the nearest hundredth, ties to even, as round() does.
RoundDiv(total, n) ==
    LET q == total \div n
        r == total % n
    IN  IF 2 * r < n THEN q
        ELSE IF 2 * r > n THEN q + 1
        ELSE IF q % 2 = 0 THEN q ELSE q + 1

\* The keys of a dict filled while iterating over s, in insertion order.
RECURSIVE FirstSeen(_, _)
FirstSeen(s, seen) ==
    IF s = <<>> THEN <<>>
    ELSE IF Head(s) \in seen THEN FirstSeen(Tail(s), seen)
    ELSE <<Head(s)>> \o FirstSeen(Tail(s), seen \cup {Head(s)})

\* sorted(items, key=total, reverse=True): stable, largest total first.
RECURSIVE InsertByTotal(_, _)
InsertByTotal(x, s) ==
    IF s = <<>> THEN <<x>>
    ELSE IF Head(s).total >= x.total THEN <<Head(s)>> \o InsertByTotal(x, Tail(s))
    ELSE <<x>> \o s

RECURSIVE SortByTotal(_)
SortByTotal(s) ==
    IF s = <<>> THEN <<>>
    ELSE InsertByTotal(s[Len(s)], SortByTotal(SubSeq(s, 1, Len(s) - 1)))

\* The try block of analyze_spending raises (KeyError) when a debit
\* transaction has no "category".
AnalysisRaises(txns) == \E i \in DOMAIN txns : IsDebit(txns[i]) /\ ~HasCategory(txns[i])

Analysis(txns) ==
    LET debits == SelectSeq(txns, IsDebit)
        credits == SelectSeq(txns, IsCredit)
        Of(m) == SelectSeq(debits, LAMBDA t : t.description = m)
        On(d) == SelectSeq(debits, LAMBDA t : t.date = d)
        In(c) == SelectSeq(debits, LAMBDA t : t.category = c)
        merchants == FirstSeen([i \in DOMAIN debits |-> debits[i].description], {})
        byMerchant == [i \in DOMAIN merchants |->
                        [merchant |-> merchants[i],
                         total |-> SumAmount(Of(merchants[i])),
                         count |-> Len(Of(merchants[i]))]]
        sortedMerchants == SortByTotal(byMerchant)
        recurring == SelectSeq(merchants, LAMBDA m : Len(Of(m)) >= MIN_RECURRING_COUNT)
    IN  [category_totals |->
            Some([c \in {debits[i].category : i \in DOMAIN debits} |-> SumAmount(In(c))]),
         total_debit |-> Some(SumAmount(debits)),
         total_credit |-> Some(SumAmount(credits)),
         net_balance_change |-> Some(SumAmount(credits) - SumAmount(debits)),
         recurring_expenses |->
            Some(SortByTotal([i \in DOMAIN recurring |->
                    [merchant |-> recurring[i],
                     category |-> Of(recurring[i])[1].category,
                     count |-> Len(Of(recurring[i])),
                     avg_amount |-> RoundDiv(SumAmount(Of(recurring[i])), Len(Of(recurring[i]))),
                     total |-> SumAmount(Of(recurring[i]))]])),
         daily_spending |->
            Some([d \in {debits[i].date : i \in DOMAIN debits} |-> SumAmount(On(d))]),
         top_merchants |->
            Some(SubSeq(sortedMerchants, 1,
                    IF Len(sortedMerchants) < TOP_MERCHANTS_LIMIT
                    THEN Len(sortedMerchants) ELSE TOP_MERCHANTS_LIMIT))]

analyze_spending ==
    /\ app = "bank" /\ pc = "analyze_spending"
    /\ IF gs.categorized_transactions = None \/ gs.categorized_transactions = Some(<<>>)
       THEN NodeDone("analyze_spending", <<>>, gs, "skipped", "prepare_visualizations")
       ELSE IF AnalysisRaises(gs.categorized_transactions[1])
       THEN NodeDone("analyze_spending", <<>>,
                Spread(gs, [errors |-> <<"Analysis failed">>]),
                "failed", "prepare_visualizations")
       ELSE NodeDone("analyze_spending", <<>>,
                Spread(gs, Analysis(gs.categorized_transactions[1])),
                "ok", "prepare_visualizations")
    /\ NodeFrame

\* prepare_visualizations reporting success without storing the charts.
prepare_visualizations_not_stored ==
    /\ app = "bank" /\ pc = "prepare_visualizations"
    /\ IF gs.category_totals = None \/ DOMAIN gs.category_totals[1] = {}
       THEN NodeDone("prepare_visualizations", <<>>, gs, "skipped", "END")
       ELSE NodeDone("prepare_visualizations", <<>>, Spread(gs, [chart_data |-> None]),
                     "ok", "END")
    /\ NodeFrame

prepare_visualizations ==
    /\ app = "bank" /\ pc = "prepare_visualizations"
    /\ IF gs.category_totals = None \/ DOMAIN gs.category_totals[1] = {}
       THEN NodeDone("prepare_visualizations", <<>>, gs, "skipped", "END")
       ELSE NodeDone("prepare_visualizations", <<>>,
                Spread(gs, [chart_data |->
                    Some([category_breakdown |-> gs.category_totals[1],
                          daily_trend |-> gs.daily_spending[1],
                          top_merchants |-> gs.top_merchants[1]])]),
                "ok", "END")
    /\ NodeFrame

----------------------------------------------------------------------------
(* Bank statement analyzer: ai_agents/bank_statement_analyzer/streamlit_app.py *)

bank_init_session_state(key) ==
    [workflow_stage |-> "upload", analysis_results |-> None, is_processing |-> FALSE,
     uploaded_file |-> None, has_openai_key |-> key]

\* The user picks a file in the uploader; the script reruns and renders the
\* Analyze button, which is created without a disabled argument.
bank_upload_file ==
    /\ app = "bank" /\ pc = "idle" /\ ui.workflow_stage = "upload"
    /\ \E pdf \in PdfFiles :
        /\ ui.uploaded_file # Some(pdf)
        /\ ui' = [ui EXCEPT !.uploaded_file = Some(pdf)]
        /\ IF ui.is_processing /\ nruns < MaxRuns
           THEN StartRun("load_pdf", BankStatementState(pdf))
           ELSE UNCHANGED <<pc, gs, ran, outcome, calls, local, nruns>>
    /\ btn' = "enabled"
    /\ click' = "upload"
    /\ UNCHANGED <<app, inflight>>

\* The user clicks Analyze Statement: without an API key an error is shown,
\* otherwise is_processing is set and the same script run starts the analyzer.
bank_click_analyze ==
    /\ app = "bank" /\ pc = "idle" /\ ui.workflow_stage = "upload"
    /\ ui.uploaded_file # None /\ btn = "enabled"
    /\ nruns < MaxRuns
    /\ IF ui.has_openai_key
       THEN /\ ui' = [ui EXCEPT !.is_processing = TRUE]
            /\ StartRun("load_pdf", BankStatementState(ui.uploaded_file[1]))
       ELSE UNCHANGED <<ui, pc, gs, ran, outcome, calls, local, nruns>>
    /\ click' = "analyze"
    /\ UNCHANGED <<app, btn, inflight>>

\* run_until_complete returned (or raised): the script handles the result.
bank_handle_result ==
    /\ app = "bank" /\ pc \in {"END", "RAISED"}
    /\ IF pc = "RAISED" \/ gs.errors # <<>>
       THEN /\ ui' = [ui EXCEPT !.is_processing = FALSE]
            /\ btn' = btn
       ELSE /\ ui' = [ui EXCEPT !.analysis_results = Some(gs),
                                !.workflow_stage = "results",
                                !.is_processing = FALSE,
                                !.uploaded_file = None]
            /\ btn' = "hidden"
    /\ RunOver
    /\ UNCHANGED <<app, inflight, nruns, click>>

reset_to_upload ==
    /\ app = "bank" /\ pc = "idle" /\ ui.workflow_stage = "results"
    /\ ui' = [ui EXCEPT !.workflow_stage = "upload", !.analysis_results = None,
                        !.uploaded_file = None]
    /\ btn' = "hidden"
    /\ click' = "reset"
    /\ UNCHANGED <<app, pc, gs, ran, outcome, calls, inflight, local, nruns>>

BankInit == app = "bank" /\ btn = "hidden" /\ \E key \in BOOLEAN : ui = bank_init_session_state(key)

BankNext ==
    \/ bank_upload_file \/ bank_click_analyze \/ bank_handle_result \/ reset_to_upload
    \/ bank_load_pdf \/ parse_transactions \/ categorize_transactions
    \/ analyze_spending \/ prepare_visualizations

----------------------------------------------------------------------------
(* PDF RAG agent: rag_agents/pdf_rag_agent/agent.py                        *)

TOP_K_CHUNKS == 4

\* len(raw_text) after appending "\n[Page i]\n{content}\n" for each page.
PageMarkedLen(pages) == SumSeq([i \in DOMAIN pages |-> 11 + pages[i]])

\* What RecursiveCharacterTextSplitter makes of a text: at least one chunk
\* for a non-empty text; each chunk carries the page its marker names.
ChunkLists(page_count) ==
    {[i \in 1..k |-> [chunk_index |-> i - 1, page_number |-> p[i]]] :
        k \in 1..MaxChunks, p \in [1..MaxChunks -> 1..page_count]}

RAGAgentState(pdf, mode, store, query) ==
    [pdf_path |-> pdf, mode |-> mode, raw_text |-> None, page_count |-> None,
     chunks |-> None, chunk_count |-> None, vector_store |-> store,
     embedding_status |-> None, query |-> query, retrieved_chunks |-> None,
     sources |-> None, answer |-> None, citations |-> None,
     messages |-> <<>>, errors |-> <<>>]

\* route_mode comparing the mode with a value no caller passes.
route_mode_wrong_literal(state) ==
    IF state.mode = "process" THEN "load_pdf" ELSE "process_query"

route_mode(state) ==
    IF state.mode = "process_document" THEN "load_pdf" ELSE "process_query"

pdf_load_pdf ==
    /\ app = "pdf_rag" /\ pc = "load_pdf"
    /\ LET pdf == gs.pdf_path IN
       IF pdf.readable
       THEN NodeDone("load_pdf", <<>>,
                Spread(gs, [raw_text |-> Some(PageMarkedLen(pdf.pages)),
                            page_count |-> Some(Len(pdf.pages))]),
                "ok", "chunk_text")
       ELSE NodeDone("load_pdf", <<>>,
                Spread(gs, [raw_text |-> None, page_count |-> Some(0),
                            errors |-> <<"PDF loading failed">>]),
                "failed", "chunk_text")
    /\ NodeFrame

pdf_chunk_text ==
    /\ app = "pdf_rag" /\ pc = "chunk_text"
    /\ IF gs.raw_text = None \/ gs.raw_text = Some(0)
       THEN NodeDone("chunk_text", <<>>, gs, "skipped", "generate_embeddings")
       ELSE \/ \E c \in ChunkLists(gs.page_count[1]) :
                NodeDone("chunk_text", <<>>,
                    Spread(gs, [chunks |-> Some(c), chunk_count |-> Some(Len(c))]),
                    "ok", "generate_embeddings")
            \/ NodeDone("chunk_text", <<>>,
                    Spread(gs, [chunks |-> None, chunk_count |-> Some(0),
                                errors |-> <<"Text chunking failed">>]),
                    "failed", "generate_embeddings")
    /\ NodeFrame

\* collection.add embeds the chunks through the OpenAI API, or raises.
pdf_generate_embeddings ==
    /\ app = "pdf_rag" /\ pc = "generate_embeddings"
    /\ IF gs.chunks = None \/ gs.chunks = Some(<<>>)
       THEN NodeDone("generate_embeddings", <<>>, gs, "skipped", "END")
       ELSE \/ NodeDone("generate_embeddings", <<"embeddings">>,
                    Spread(gs, [vector_store |-> Some(gs.chunks[1]),
                                embedding_status |-> Some("Successfully embedded")]),
                    "ok", "END")
            \/ NodeDone("generate_embeddings", <<"embeddings">>,
                    Spread(gs, [vector_store |-> None,
                                embedding_status |-> Some("Error"),
                                errors |-> <<"Embedding generation failed">>]),
                    "failed", "END")
    /\ NodeFrame

\* The first n elements of s (all of s when it is shorter).
Take(s, n) == SubSeq(s, 1, IF Len(s) < n THEN Len(s) ELSE n)

SourceOf(filename, chunk) ==
    [filename |-> filename, page |-> chunk.page_number, chunk_index |-> chunk.chunk_index]

pdf_process_query ==
    /\ app = "pdf_rag" /\ pc = "process_query"
    /\ IF gs.vector_store = None
       THEN NodeDone("process_query", <<>>,
                Spread(gs, [retrieved_chunks |-> None, sources |-> None,
                            errors |-> <<"No document has been processed yet">>]),
                "failed", "generate_answer")
       ELSE \/ LET found == Take(gs.vector_store[1], TOP_K_CHUNKS) IN
               NodeDone("process_query", <<"vector_store.query">>,
                    Spread(gs, [retrieved_chunks |-> Some(found),
                                sources |-> Some([i \in DOMAIN found |->
                                                    SourceOf("file.pdf", found[i])])]),
                    "ok", "generate_answer")
            \/ NodeDone("process_query", <<"vector_store.query">>,
                    Spread(gs, [retrieved_chunks |-> None, sources |-> None,
                                errors |-> <<"Query processing failed">>]),
                    "failed", "generate_answer")
    /\ NodeFrame

\* "{filename} (Page {page})" for each source, without repetitions.
Citations(sources) ==
    FirstSeen([i \in DOMAIN sources |->
                [filename |-> sources[i].filename, page |-> sources[i].page]], {})

NoAnswer == "I couldn't find relevant information to answer your question."

\* generate_answer without the early return for missing chunks: the prompt
\* is built with an empty context and sent to the LLM.
pdf_generate_answer_without_fallback ==
    /\ app = "pdf_rag" /\ pc = "generate_answer"
    /\ \/ NodeDone("generate_answer", <<"llm">>,
                Spread(gs, [answer |-> Some("llm answer"),
                            citations |-> Some(IF gs.sources = None THEN <<>>
                                               ELSE Citations(gs.sources[1]))]),
                "ok", "END")
       \/ NodeDone("generate_answer", <<"llm">>,
                Spread(gs, [answer |-> Some("Error generating answer"),
                            citations |-> Some(<<>>),
                            errors |-> <<"Answer generation failed">>]),
                "failed", "END")
    /\ NodeFrame

pdf_generate_answer ==
    /\ app = "pdf_rag" /\ pc = "generate_answer"
    /\ IF gs.retrieved_chunks = None \/ gs.retrieved_chunks = Some(<<>>)
       THEN NodeDone("generate_answer", <<>>,
                Spread(gs, [answer |-> Some(NoAnswer), citations |-> Some(<<>>)]),
                "skipped", "END")
       ELSE \/ NodeDone("generate_answer", <<"llm">>,
                    Spread(gs, [answer |-> Some("llm answer"),
                                citations |-> Some(Citations(gs.sources[1]))]),
                    "ok", "END")
            \/ NodeDone("generate_answer", <<"llm">>,
                    Spread(gs, [answer |-> Some("Error generating answer"),
                                citations |-> Some(<<>>),
                                errors |-> <<"Answer generation failed">>]),
                    "failed", "END")
    /\ NodeFrame

----------------------------------------------------------------------------
(* PDF RAG agent: rag_agents/pdf_rag_agent/streamlit_app.py                *)

\* What the user may type in the question box.
Queries == {"", "q"}

pdf_init_session_state ==
    [workflow_stage |-> "upload", vector_store |-> None, document_info |-> None,
     query_history |-> <<>>, is_processing |-> FALSE, uploaded_file |-> None,
     current_query |-> ""]

\* run_document_processing / run_query: a fresh graph, entered by route_mode.
run_document_processing(pdf) ==
    LET initial_state == RAGAgentState(pdf, "process_document", None, "")
    IN  StartRun(route_mode(initial_state), initial_state)

run_query(query, vector_store) ==
    LET initial_state ==
            RAGAgentState([readable |-> FALSE, pages |-> <<>>], "query", vector_store, query)
    IN  StartRun(route_mode(initial_state), initial_state)

\* A script run of the upload stage with a file in the uploader: the Process
\* button is rendered with disabled=is_processing, and processing starts when
\* is_processing is set.
PdfUploadScript(session) ==
    /\ ui' = session
    /\ btn' = IF session.is_processing THEN "disabled" ELSE "enabled"
    /\ IF session.is_processing /\ nruns < MaxRuns
       THEN run_document_processing(session.uploaded_file[1])
       ELSE UNCHANGED <<pc, gs, ran, outcome, calls, local, nruns>>

pdf_upload_file ==
    /\ app = "pdf_rag" /\ pc = "idle" /\ ui.workflow_stage = "upload"
    /\ \E pdf \in PdfFiles :
        /\ ui.uploaded_file # Some(pdf)
        /\ PdfUploadScript([ui EXCEPT !.uploaded_file = Some(pdf)])
    /\ click' = "upload"
    /\ UNCHANGED <<app, inflight>>

\* on_click=start_processing, then the script run.
pdf_start_processing ==
    /\ app = "pdf_rag" /\ pc = "idle" /\ ui.workflow_stage = "upload"
    /\ ui.uploaded_file # None /\ btn = "enabled"
    /\ nruns < MaxRuns
    /\ PdfUploadScript([ui EXCEPT !.is_processing = TRUE])
    /\ click' = "process"
    /\ UNCHANGED <<app, inflight>>

\* run_document_processing returned: errors are shown and the page stays as
\* rendered; otherwise the store is kept and the app moves to the query stage.
pdf_processing_done ==
    /\ app = "pdf_rag" /\ pc = "END" /\ gs.mode = "process_document"
    /\ IF gs.errors # <<>>
       THEN /\ ui' = [ui EXCEPT !.is_processing = FALSE]
            /\ btn' = btn
       ELSE /\ ui' = [ui EXCEPT !.vector_store = gs.vector_store,
                                !.document_info = Some([page_count |-> gs.page_count,
                                                        chunk_count |-> gs.chunk_count]),
                                !.workflow_stage = "query",
                                !.is_processing = FALSE,
                                !.uploaded_file = None]
            /\ btn' = "enabled"
    /\ RunOver
    /\ UNCHANGED <<app, inflight, nruns, click>>

\* on_click=start_query (an empty question only shows an error), then the
\* script run of the query stage.
pdf_start_query ==
    /\ app = "pdf_rag" /\ pc = "idle" /\ ui.workflow_stage = "query"
    /\ btn = "enabled" /\ nruns < MaxRuns
    /\ \E query \in Queries :
        IF query = ""
        THEN UNCHANGED <<ui, btn, pc, gs, ran, outcome, calls, local, nruns>>
        ELSE /\ ui' = [ui EXCEPT !.is_processing = TRUE, !.current_query = query]
             /\ btn' = "disabled"
             /\ run_query(query, ui.vector_store)
    /\ click' = "ask"
    /\ UNCHANGED <<app, inflight>>

pdf_query_done ==
    /\ app = "pdf_rag" /\ pc = "END" /\ gs.mode = "query"
    /\ ui' = [ui EXCEPT !.is_processing = FALSE,
                        !.query_history =
                            IF gs.errors # <<>> THEN @
                            ELSE Append(@, [query |-> ui.current_query,
                                            answer |-> gs.answer,
                                            citations |-> gs.citations])]
    /\ btn' = "enabled"
    /\ RunOver
    /\ UNCHANGED <<app, inflight, nruns, click>>

reset_document ==
    /\ app = "pdf_rag" /\ pc = "idle" /\ ui.workflow_stage = "query"
    /\ ui' = [ui EXCEPT !.workflow_stage = "upload", !.vector_store = None,
                        !.document_info = None, !.query_history = <<>>,
                        !.uploaded_file = None]
    /\ btn' = "hidden"
    /\ click' = "reset"
    /\ UNCHANGED <<app, pc, gs, ran, outcome, calls, inflight, local, nruns>>

PdfInit == app = "pdf_rag" /\ btn = "hidden" /\ ui = pdf_init_session_state

PdfNext ==
    \/ pdf_upload_file \/ pdf_start_processing \/ pdf_processing_done
    \/ pdf_start_query \/ pdf_query_done \/ reset_document
    \/ pdf_load_pdf \/ pdf_chunk_text \/ pdf_generate_embeddings
    \/ pdf_process_query \/ pdf_generate_answer

----------------------------------------------------------------------------
(* Audio RAG agent: rag_agents/audio_rag_agent/agent.py                    *)

\* An uploaded recording: whether AssemblyAI completes the transcription,
\* and the length of the text it returns (None: no text attribute).
AudioFiles ==
    {[completed |-> FALSE, text |-> None]}
    \cup {[completed |-> TRUE, text |-> t] : t \in {None, Some(0), Some(1)}}

AudioRAGAgentState(audio, mode, store, query) ==
    [audio_path |-> audio, mode |-> mode, transcript_text |-> None,
     transcript_id |-> None, audio_duration |-> None, word_count |-> None,
     chunks |-> None, chunk_count |-> None, vector_store |-> store,
     embedding_status |-> None, query |-> query, retrieved_chunks |-> None,
     sources |-> None, answer |-> None, citations |-> None,
     messages |-> <<>>, errors |-> <<>>]

audio_route_mode(state) ==
    IF state.mode = "process_audio" THEN "transcribe_audio" ELSE "process_query"

\* Chunks of a transcript carry a timestamp range instead of a page.
AudioChunkLists ==
    {[i \in 1..k |-> [chunk_index |-> i - 1, timestamp_range |-> i]] : k \in 1..MaxChunks}

transcribe_audio ==
    /\ app = "audio_rag" /\ pc = "transcribe_audio"
    /\ LET audio == gs.audio_path IN
       IF audio.completed /\ audio.text # None
       THEN NodeDone("transcribe_audio", <<"assemblyai">>,
                Spread(gs, [transcript_text |-> audio.text,
                            transcript_id |-> Some("id"),
                            audio_duration |-> Some(1),
                            word_count |-> audio.text]),
                "ok", "chunk_text")
       ELSE NodeDone("transcribe_audio", <<"assemblyai">>,
                Spread(gs, [transcript_text |-> None, transcript_id |-> None,
                            audio_duration |-> Some(0), word_count |-> Some(0),
                            errors |-> <<"Audio transcription failed">>]),
                "failed", "chunk_text")
    /\ NodeFrame

audio_chunk_text ==
    /\ app = "audio_rag" /\ pc = "chunk_text"
    /\ IF gs.transcript_text = None \/ gs.transcript_text = Some(0)
       THEN NodeDone("chunk_text", <<>>, gs, "skipped", "generate_embeddings")
       ELSE \/ \E c \in AudioChunkLists :
                NodeDone("chunk_text", <<>>,
                    Spread(gs, [chunks |-> Some(c), chunk_count |-> Some(Len(c))]),
                    "ok", "generate_embeddings")
            \/ NodeDone("chunk_text", <<>>,
                    Spread(gs, [chunks |-> None, chunk_count |-> Some(0),
                                errors |-> <<"Text chunking failed">>]),
                    "failed", "generate_embeddings")
    /\ NodeFrame

audio_generate_embeddings ==
    /\ app = "audio_rag" /\ pc = "generate_embeddings"
    /\ IF gs.chunks = None \/ gs.chunks = Some(<<>>)
       THEN NodeDone("generate_embeddings", <<>>, gs, "skipped", "END")
       ELSE \/ NodeDone("generate_embeddings", <<"embeddings">>,
                    Spread(gs, [vector_store |-> Some(gs.chunks[1]),
                                embedding_status |-> Some("Successfully embedded")]),
                    "ok", "END")
            \/ NodeDone("generate_embeddings", <<"embeddings">>,
                    Spread(gs, [vector_store |-> None,
                                embedding_status |-> Some("Error"),
                                errors |-> <<"Embedding generation failed">>]),
                    "failed", "END")
    /\ NodeFrame

AudioSourceOf(filename, chunk) ==
    [filename |-> filename, timestamp_range |-> chunk.timestamp_range,
     chunk_index |-> chunk.chunk_index]

audio_process_query ==
    /\ app = "audio_rag" /\ pc = "process_query"
    /\ IF gs.vector_store = None
       THEN NodeDone("process_query", <<>>,
                Spread(gs, [retrieved_chunks |-> None, sources |-> None,
                            errors |-> <<"No audio has been processed yet">>]),
                "failed", "generate_answer")
       ELSE \/ LET found == Take(gs.vector_store[1], TOP_K_CHUNKS) IN
               NodeDone("process_query", <<"vector_store.query">>,
                    Spread(gs, [retrieved_chunks |-> Some(found),
                                sources |-> Some([i \in DOMAIN found |->
                                                    AudioSourceOf("file.mp3", found[i])])]),
                    "ok", "generate_answer")
            \/ NodeDone("process_query", <<"vector_store.query">>,
                    Spread(gs, [retrieved_chunks |-> None, sources |-> None,
                                errors |-> <<"Query processing failed">>]),
                    "failed", "generate_answer")
    /\ NodeFrame

\* "{filename} (at {timestamp_range})" for each source, without repetitions.
AudioCitations(sources) ==
    FirstSeen([i \in DOMAIN sources |->
                [filename |-> sources[i].filename,
                 timestamp_range |-> sources[i].timestamp_range]], {})

audio_generate_answer ==
    /\ app = "audio_rag" /\ pc = "generate_answer"
    /\ IF gs.retrieved_chunks = None \/ gs.retrieved_chunks = Some(<<>>)
       THEN NodeDone("generate_answer", <<>>,
                Spread(gs, [answer |-> Some(NoAnswer), citations |-> Some(<<>>)]),
                "skipped", "END")
       ELSE \/ NodeDone("generate_answer", <<"llm">>,
                    Spread(gs, [answer |-> Some("llm answer"),
                                citations |-> Some(AudioCitations(gs.sources[1]))]),
                    "ok", "END")
            \/ NodeDone("generate_answer", <<"llm">>,
                    Spread(gs, [answer |-> Some("Error generating answer"),
                                citations |-> Some(<<>>),
                                errors |-> <<"Answer generation failed">>]),
                    "failed", "END")
    /\ NodeFrame

----------------------------------------------------------------------------
(* Audio RAG agent: rag_agents/audio_rag_agent/streamlit_app.py            *)

audio_init_session_state(keys) ==
    [workflow_stage |-> "upload", vector_store |-> None, audio_info |-> None,
     query_history |-> <<>>, is_processing |-> FALSE, uploaded_file |-> None,
     current_query |-> "", has_api_keys |-> keys]

run_audio_processing(audio) ==
    LET initial_state == AudioRAGAgentState(audio, "process_audio", None, "")
    IN  StartRun(audio_route_mode(initial_state), initial_state)

audio_run_query(query, vector_store) ==
    LET initial_state ==
            AudioRAGAgentState([completed |-> FALSE, text |-> None], "query",
                               vector_store, query)
    IN  StartRun(audio_route_mode(initial_state), initial_state)

AudioUploadScript(session) ==
    /\ ui' = session
    /\ btn' = IF session.is_processing THEN "disabled" ELSE "enabled"
    /\ IF session.is_processing /\ nruns < MaxRuns
       THEN run_audio_processing(session.uploaded_file[1])
       ELSE UNCHANGED <<pc, gs, ran, outcome, calls, local, nruns>>

audio_upload_file ==
    /\ app = "audio_rag" /\ pc = "idle" /\ ui.workflow_stage = "upload"
    /\ \E audio \in AudioFiles :
        /\ ui.uploaded_file # Some(audio)
        /\ AudioUploadScript([ui EXCEPT !.uploaded_file = Some(audio)])
    /\ click' = "upload"
    /\ UNCHANGED <<app, inflight>>

\* on_click=start_processing (without the API keys only an error is shown),
\* then the script run.
audio_start_processing ==
    /\ app = "audio_rag" /\ pc = "idle" /\ ui.workflow_stage = "upload"
    /\ ui.uploaded_file # None /\ btn = "enabled"
    /\ nruns < MaxRuns
    /\ AudioUploadScript([ui EXCEPT !.is_processing = ui.has_api_keys])
    /\ click' = "process"
    /\ UNCHANGED <<app, inflight>>

audio_processing_done ==
    /\ app = "audio_rag" /\ pc = "END" /\ gs.mode = "process_audio"
    /\ IF gs.errors # <<>>
       THEN /\ ui' = [ui EXCEPT !.is_processing = FALSE]
            /\ btn' = btn
       ELSE /\ ui' = [ui EXCEPT !.vector_store = gs.vector_store,
                                !.audio_info = Some([word_count |-> gs.word_count,
                                                     chunk_count |-> gs.chunk_count]),
                                !.workflow_stage = "query",
                                !.is_processing = FALSE,
                                !.uploaded_file = None]
            /\ btn' = "enabled"
    /\ RunOver
    /\ UNCHANGED <<app, inflight, nruns, click>>

audio_start_query ==
    /\ app = "audio_rag" /\ pc = "idle" /\ ui.workflow_stage = "query"
    /\ btn = "enabled" /\ nruns < MaxRuns
    /\ \E query \in Queries :
        IF query = ""
        THEN UNCHANGED <<ui, btn, pc, gs, ran, outcome, calls, local, nruns>>
        ELSE /\ ui' = [ui EXCEPT !.is_processing = TRUE, !.current_query = query]
             /\ btn' = "disabled"
             /\ audio_run_query(query, ui.vector_store)
    /\ click' = "ask"
    /\ UNCHANGED <<app, inflight>>

audio_query_done ==
    /\ app = "audio_rag" /\ pc = "END" /\ gs.mode = "query"
    /\ ui' = [ui EXCEPT !.is_processing = FALSE,
                        !.query_history =
                            IF gs.errors # <<>> THEN @
                            ELSE Append(@, [query |-> ui.current_query,
                                            answer |-> gs.answer,
                                            citations |-> gs.citations])]
    /\ btn' = "enabled"
    /\ RunOver
    /\ UNCHANGED <<app, inflight, nruns, click>>

reset_audio ==
    /\ app = "audio_rag" /\ pc = "idle" /\ ui.workflow_stage = "query"
    /\ ui' = [ui EXCEPT !.workflow_stage = "upload", !.vector_store = None,
                        !.audio_info = None, !.query_history = <<>>,
                        !.uploaded_file = None]
    /\ btn' = "hidden"
    /\ click' = "reset"
    /\ UNCHANGED <<app, pc, gs, ran, outcome, calls, inflight, local, nruns>>

AudioInit ==
    /\ app = "audio_rag" /\ btn = "hidden"
    /\ \E keys \in BOOLEAN : ui = audio_init_session_state(keys)

AudioNext ==
    \/ audio_upload_file \/ audio_start_processing \/ audio_processing_done
    \/ audio_start_query \/ audio_query_done \/ reset_audio
    \/ transcribe_audio \/ audio_chunk_text \/ audio_generate_embeddings
    \/ audio_process_query \/ audio_generate_answer

----------------------------------------------------------------------------
(* GitHub repository explorer: ai_agents_mcp/github_repo_explorer/agent.py *)

GitHubExplorerState(repo_url, user_query) ==
    [repo_url |-> repo_url, user_query |-> user_query, mcp_session |-> Some("session"),
     available_tools |-> <<"list_issues">>, tool_results |-> <<>>, explanation |-> "",
     errors |-> <<>>, messages |-> <<>>]

\* The dictionary run_agent returns when the workflow completed ...
AgentResult(result) ==
    [repo_url |-> result.repo_url, user_query |-> result.user_query,
     explanation |-> result.explanation, tool_results |-> result.tool_results,
     available_tools |-> result.available_tools, errors |-> result.errors,
     success |-> Len(result.errors) = 0]

\* The except clause's dictionary without the two tool keys.
AgentFailure_without_tool_keys(repo_url, user_query, e) ==
    [repo_url |-> repo_url, user_query |-> user_query, explanation |-> "Error",
     errors |-> <<e>>, success |-> FALSE]

\* ... and the one its except clause returns for the exception e.
AgentFailure(repo_url, user_query, e) ==
    [repo_url |-> repo_url, user_query |-> user_query, explanation |-> "Error",
     tool_results |-> <<>>, available_tools |-> <<>>, errors |-> <<e>>,
     success |-> FALSE]

\* run_agent up to graph.ainvoke: start the MCP server, initialize the
\* session, list the tools, each awaited in turn; an exception at any of
\* them is caught by run_agent's except clause.
github_connect ==
    /\ app = "github" /\ pc = "run_agent"
    /\ \E reached \in 0..3 :
        LET steps == Take(<<"stdio_client", "session.initialize", "session.list_tools">>,
                          IF reached = 3 THEN 3 ELSE reached + 1)
        IN  /\ calls' = calls \o steps
            /\ IF reached = 3
               THEN /\ pc' = "query_mcp"
                    /\ gs' = GitHubExplorerState(ui.repo_url, ui.query)
               ELSE /\ pc' = "RETURNED"
                    /\ gs' = AgentFailure(ui.repo_url, ui.query, steps[Len(steps)])
    /\ UNCHANGED <<app, ui, btn, ran, outcome, inflight, local, nruns, click>>

\* The planning LLM's reply: the call raises, the text is not JSON, an item
\* has no "tool" key, or a list of tool calls.
PlanReplies ==
    {[kind |-> k, plan |-> <<>>] : k \in {"raise", "bad_json", "bad_item"}}
    \cup {[kind |-> "ok", plan |-> [i \in 1..n |-> "list_issues"]] : n \in 0..MaxPlan}

\* query_github_mcp up to the tool loop.
query_github_mcp ==
    /\ app = "github" /\ pc = "query_mcp"
    /\ IF gs.mcp_session = None
       THEN /\ NodeDone("query_mcp", <<>>, Spread(gs, [tool_results |-> <<>>]),
                        "skipped", "generate_explanation")
            /\ local' = local
       ELSE \E r \in PlanReplies :
            CASE r.kind = "ok" ->
                    /\ pc' = "query_mcp.tool_loop"
                    /\ local' = [todo |-> Take(r.plan, 3), results |-> <<>>]
                    /\ calls' = Append(calls, "llm")
                    /\ UNCHANGED <<gs, ran, outcome>>
              [] r.kind = "bad_json" ->
                    /\ NodeDone("query_mcp", <<"llm">>,
                            Spread(gs, [errors |-> <<"Query planning failed: Invalid JSON from LLM">>]),
                            "failed", "generate_explanation")
                    /\ local' = local
              [] OTHER ->
                    /\ NodeDone("query_mcp", <<"llm">>,
                            Spread(gs, [errors |-> <<"Query execution failed">>]),
                            "failed", "generate_explanation")
                    /\ local' = local
    /\ UNCHANGED <<app, ui, btn, inflight, nruns, click>>

\* await session.call_tool(...): the call is issued ...
call_tool ==
    /\ app = "github" /\ pc = "query_mcp.tool_loop"
    /\ local.todo # <<>> /\ inflight = 0
    /\ inflight' = inflight + 1
    /\ calls' = Append(calls, "call_tool")
    /\ UNCHANGED <<app, ui, btn, pc, gs, ran, outcome, local, nruns, click>>

\* ... and returns or raises; either way a result is appended and the loop
\* goes on to the next tool call.
call_tool_returned ==
    /\ app = "github" /\ pc = "query_mcp.tool_loop"
    /\ inflight > 0
    /\ \E success \in BOOLEAN :
        local' = [todo |-> Tail(local.todo),
                  results |-> Append(local.results,
                                     [tool |-> Head(local.todo), success |-> success])]
    /\ inflight' = inflight - 1
    /\ UNCHANGED <<app, ui, btn, pc, gs, ran, outcome, calls, nruns, click>>

\* The loop is over: query_github_mcp returns.
query_github_mcp_return ==
    /\ app = "github" /\ pc = "query_mcp.tool_loop"
    /\ local.todo = <<>> /\ inflight = 0
    /\ NodeDone("query_mcp", <<>>,
            Spread(gs, [tool_results |-> local.results, messages |-> <<"plan">>]),
            "ok", "generate_explanation")
    /\ local' = <<>>
    /\ UNCHANGED <<app, ui, btn, inflight, nruns, click>>

generate_explanation ==
    /\ app = "github" /\ pc = "generate_explanation"
    /\ \/ NodeDone("generate_explanation", <<"llm">>,
                Spread(gs, [explanation |-> "explanation", messages |-> <<"response">>]),
                "ok", "END")
       \/ NodeDone("generate_explanation", <<"llm">>,
                Spread(gs, [explanation |-> "Error generating explanation",
                            errors |-> <<"Explanation failed">>]),
                "failed", "END")
    /\ NodeFrame

\* graph.ainvoke returned: run_agent builds its result and leaves the two
\* async with blocks, whose exit may raise into the except clause.
github_return ==
    /\ app = "github" /\ pc = "END"
    /\ \/ gs' = AgentResult(gs)
       \/ gs' = AgentFailure(gs.repo_url, gs.user_query, "cleanup")
    /\ pc' = "RETURNED"
    /\ UNCHANGED <<app, ui, btn, ran, outcome, calls, inflight, local, nruns, click>>

----------------------------------------------------------------------------
(* GitHub repository explorer: ai_agents_mcp/github_repo_explorer/streamlit_app.py *)

github_init_session_state(key) ==
    [is_processing |-> FALSE, last_result |-> None, repo_url |-> "", query |-> "",
     has_openai |-> key]

\* What the user may have typed in the URL and question boxes.
RepoUrls == {"", "https://github.com/o/r"}

\* start_exploration with the Explore button rendered without a disabled
\* argument.
start_exploration_button_enabled ==
    /\ app = "github" /\ pc = "idle" /\ btn = "enabled"
    /\ nruns < MaxRuns
    /\ \E repo_url \in RepoUrls, query \in Queries :
        IF repo_url = "" \/ query = "" \/ ~ui.has_openai
        THEN UNCHANGED <<ui, btn, pc, gs, ran, outcome, calls, local, nruns>>
        ELSE /\ ui' = [ui EXCEPT !.repo_url = repo_url, !.query = query,
                                 !.is_processing = TRUE]
             /\ btn' = "enabled"
             /\ StartRun("run_agent", <<>>)
    /\ click' = "explore"
    /\ UNCHANGED <<app, inflight>>

\* on_click=start_exploration (missing input or API key: an error, nothing
\* else), then the script run: the button is rendered with
\* disabled=is_processing and run_agent is started.
start_exploration ==
    /\ app = "github" /\ pc = "idle" /\ btn = "enabled"
    /\ nruns < MaxRuns
    /\ \E repo_url \in RepoUrls, query \in Queries :
        IF repo_url = "" \/ query = "" \/ ~ui.has_openai
        THEN UNCHANGED <<ui, btn, pc, gs, ran, outcome, calls, local, nruns>>
        ELSE /\ ui' = [ui EXCEPT !.repo_url = repo_url, !.query = query,
                                 !.is_processing = TRUE]
             /\ btn' = "disabled"
             /\ StartRun("run_agent", <<>>)
    /\ click' = "explore"
    /\ UNCHANGED <<app, inflight>>

\* run_until_complete(run_agent(...)) returned its dictionary.
github_show_result ==
    /\ app = "github" /\ pc = "RETURNED"
    /\ ui' = [ui EXCEPT !.last_result = Some(gs), !.is_processing = FALSE]
    /\ btn' = "enabled"
    /\ RunOver
    /\ UNCHANGED <<app, inflight, nruns, click>>

GithubInit ==
    /\ app = "github" /\ btn = "enabled"
    /\ \E key \in BOOLEAN : ui = github_init_session_state(key)

GithubNext ==
    \/ start_exploration \/ github_show_result
    \/ github_connect \/ query_github_mcp \/ call_tool \/ call_tool_returned
    \/ query_github_mcp_return \/ generate_explanation \/ github_return

----------------------------------------------------------------------------
(* Blog writer: ai_agents/writing_agent/blogger.py                         *)
(*                                                                         *)
(* The graph is compiled with a checkpointer: gs is the thread's state     *)
(* as of the last checkpoint and local its snapshot.next, both kept from   *)
(* one invocation (graph.stream) to the next.  A message is modelled by    *)
(* its type; the content of an AI message by its position in the thread,   *)
(* so that two different responses are different values.                   *)

BlogApps == {"blog", "blog_cli"}

BlogState ==
    [messages |-> <<>>, outline |-> None, blog_draft |-> None, edited_blog |-> None,
     social_posts |-> None, calling_node |-> None]

\* interrupt_before without its last entry.
interrupt_before_without_social == {"planner", "writer", "editor"}

interrupt_before == {"planner", "writer", "editor", "social"}

Count(s, x) == Cardinality({i \in DOMAIN s : s[i] = x})

\* The chat model's reply to a node: a text, a request for a tool call
\* (only from a model bound to tools), or an exception.
LlmReplies(with_tools) ==
    {"content", "raise"}
    \cup (IF with_tools /\ Count(gs.messages, "tool") < MaxToolRounds
          THEN {"tool_calls"} ELSE {})

HasToolCalls(state) ==
    state.messages # <<>> /\ state.messages[Len(state.messages)] = "ai_tool_calls"

route_after_requirements(state) == IF HasToolCalls(state) THEN "tools" ELSE "planner"
route_after_planner(state) == IF HasToolCalls(state) THEN "tools" ELSE "writer"
route_after_tools(state) ==
    IF state.calling_node = Some("planner") THEN "planner" ELSE "requirements"

\* A step of the compiled graph is over: the checkpoint records the node to
\* run next, and the invocation stops in front of an interrupt_before node.
BlogStep(node, issued, update, next) ==
    /\ NodeDone(node, issued, update, "ok",
                IF next \in interrupt_before THEN "INTERRUPT" ELSE next)
    /\ local' = IF next = "END" THEN <<>> ELSE <<next>>

\* The node raised: no checkpoint is written, the node stays pending.
BlogRaise(node, issued) == NodeRaised(node, issued) /\ local' = local

BlogFrame == UNCHANGED <<app, ui, btn, inflight, nruns, click>>

\* The content of the response a node is about to append.
NewContent == Len(gs.messages) + 1

requirements_node ==
    /\ app \in BlogApps /\ pc = "requirements"
    /\ \E r \in LlmReplies(TRUE) :
        CASE r = "raise" -> BlogRaise("requirements", <<"llm">>)
          [] r = "tool_calls" ->
                LET update == Spread(gs, [messages |-> <<"ai_tool_calls">>,
                                          calling_node |-> Some("requirements")])
                IN  BlogStep("requirements", <<"llm">>, update,
                             route_after_requirements(ApplyUpdate(gs, update)))
          [] OTHER ->
                LET update == Spread(gs, [messages |-> <<"ai">>, calling_node |-> None])
                IN  BlogStep("requirements", <<"llm">>, update,
                             route_after_requirements(ApplyUpdate(gs, update)))
    /\ BlogFrame

\* ToolNode([tavily_search]): the search result, or the error text, comes
\* back as a tool message.
tools ==
    /\ app \in BlogApps /\ pc = "tools"
    /\ LET update == [messages |-> <<"tool">>]
       IN  BlogStep("tools", <<"tavily_search">>, update,
                    route_after_tools(ApplyUpdate(gs, update)))
    /\ BlogFrame

\* planner_node keeping the existing outline also when the model answered
\* with the outline.
planner_node_outline_not_saved ==
    /\ app \in BlogApps /\ pc = "planner"
    /\ \E r \in LlmReplies(TRUE) :
        CASE r = "raise" -> BlogRaise("planner", <<"llm">>)
          [] r = "tool_calls" ->
                LET update == Spread(gs, [messages |-> <<"ai_tool_calls">>,
                                          outline |-> gs.outline,
                                          calling_node |-> Some("planner")])
                IN  BlogStep("planner", <<"llm">>, update,
                             route_after_planner(ApplyUpdate(gs, update)))
          [] OTHER ->
                LET update == Spread(gs, [messages |-> <<"ai">>,
                                          outline |-> gs.outline,
                                          calling_node |-> None])
                IN  BlogStep("planner", <<"llm">>, update,
                             route_after_planner(ApplyUpdate(gs, update)))
    /\ BlogFrame

planner_node ==
    /\ app \in BlogApps /\ pc = "planner"
    /\ \E r \in LlmReplies(TRUE) :
        CASE r = "raise" -> BlogRaise("planner", <<"llm">>)
          [] r = "tool_calls" ->
                LET update == Spread(gs, [messages |-> <<"ai_tool_calls">>,
                                          outline |-> gs.outline,
                                          calling_node |-> Some("planner")])
                IN  BlogStep("planner", <<"llm">>, update,
                             route_after_planner(ApplyUpdate(gs, update)))
          [] OTHER ->
                LET update == Spread(gs, [messages |-> <<"ai">>,
                                          outline |-> Some(NewContent),
                                          calling_node |-> None])
                IN  BlogStep("planner", <<"llm">>, update,
                             route_after_planner(ApplyUpdate(gs, update)))
    /\ BlogFrame

writer_node ==
    /\ app \in BlogApps /\ pc = "writer"
    /\ \E r \in LlmReplies(FALSE) :
        IF r = "raise" THEN BlogRaise("writer", <<"llm">>)
        ELSE BlogStep("writer", <<"llm">>,
                Spread(gs, [messages |-> <<"ai">>, blog_draft |-> Some(NewContent)]),
                "editor")
    /\ BlogFrame

editor_node ==
    /\ app \in BlogApps /\ pc = "editor"
    /\ \E r \in LlmReplies(FALSE) :
        IF r = "raise" THEN BlogRaise("editor", <<"llm">>)
        ELSE BlogStep("editor", <<"llm">>,
                Spread(gs, [messages |-> <<"ai">>, edited_blog |-> Some(NewContent)]),
                "social")
    /\ BlogFrame

social_node ==
    /\ app \in BlogApps /\ pc = "social"
    /\ \E r \in LlmReplies(FALSE) :
        IF r = "raise" THEN BlogRaise("social", <<"llm">>)
        ELSE BlogStep("social", <<"llm">>,
                Spread(gs, [messages |-> <<"ai">>,
                            social_posts |-> Some([content |-> NewContent])]),
                "END")
    /\ BlogFrame

\* graph.stream({"messages": [HumanMessage(...)]}, config): the input is
\* written to the thread, whatever was pending is dropped, and the graph
\* runs from START.
StreamInput ==
    /\ gs' = ApplyUpdate(IF gs = <<>> THEN BlogState ELSE gs, [messages |-> <<"human">>])
    /\ pc' = "requirements"
    /\ local' = <<"requirements">>
    /\ ran' = <<>> /\ outcome' = <<>> /\ calls' = <<>>
    /\ nruns' = nruns + 1

\* graph.stream(None, config): the pending node, if any, runs without
\* being interrupted again; a finished thread has nothing to run.
StreamResume ==
    /\ gs' = gs
    /\ pc' = IF local = <<>> THEN "END" ELSE local[1]
    /\ local' = local
    /\ ran' = <<>> /\ outcome' = <<>> /\ calls' = <<>>
    /\ nruns' = nruns + 1

\* The invocation is over: it stopped at an interrupt, reached END, or a
\* node's exception came out of graph.stream.
StreamOver == pc \in {"INTERRUPT", "END", "RAISED"}

\* Control is back with the driver; the thread (gs, local) stays in the
\* checkpointer.
BackToDriver ==
    /\ pc' = "idle" /\ ran' = <<>> /\ outcome' = <<>> /\ calls' = <<>>
    /\ UNCHANGED <<gs, local>>

(* Streamlit driver: ai_agents/writing_agent/streamlit_app.py.  The API   *)
(* keys are set (the script stops before the first widget otherwise).     *)

blog_init_session_state ==
    [current_stage |-> "input", requirements_done |-> FALSE, outline |-> None,
     blog_draft |-> None, edited_blog |-> None, social_posts |-> None]

Topics == {"", "topic"}
Feedbacks == {"", "feedback"}

\* The stages that show the approval form.
ApprovalStages == {"planner", "writer", "editor", "social"}


NextStage(stage) ==
    CASE stage = "planner" -> "writer"
      [] stage = "writer" -> "editor"
      [] stage = "editor" -> "social"
      [] stage = "social" -> "complete"

\* "Start Blog Creation".
blog_start ==
    /\ app = "blog" /\ pc = "idle" /\ ui.current_stage = "input"
    /\ nruns < MaxStreams
    /\ \E topic_input \in Topics :
        IF topic_input = ""
        THEN click' = "start_empty" /\ UNCHANGED <<pc, gs, ran, outcome, calls, local, nruns>>
        ELSE click' = "start" /\ StreamInput
    /\ UNCHANGED <<app, ui, btn, inflight>>

\* "Approve & Continue", with or without text in the feedback box.
blog_approve ==
    /\ app = "blog" /\ pc = "idle" /\ ui.current_stage \in ApprovalStages
    /\ nruns < MaxStreams
    /\ \E feedback \in Feedbacks :
        IF feedback # ""
        THEN /\ Count(gs.messages, "human") <= MaxFeedback
             /\ click' = "feedback" /\ StreamInput
        ELSE click' = "continue" /\ StreamResume
    /\ UNCHANGED <<app, ui, btn, inflight>>

\* The rest of the button's handler, after graph.stream returned or raised.
blog_stream_done ==
    /\ app = "blog" /\ StreamOver
    /\ ui' = IF pc = "RAISED" THEN ui
             ELSE IF click = "start"
             THEN Spread(ui, [requirements_done |-> TRUE, current_stage |-> "planner"])
             ELSE LET stage == ui.current_stage
                      field == CASE stage = "planner" -> "outline"
                                 [] stage = "writer" -> "blog_draft"
                                 [] stage = "editor" -> "edited_blog"
                                 [] stage = "social" -> "social_posts"
                  IN  [ui EXCEPT ![field] = gs[field], !.current_stage = NextStage(stage)]
    /\ BackToDriver
    /\ UNCHANGED <<app, btn, inflight, nruns, click>>

\* "Start New Session" and "Create Another Blog": every session key is
\* deleted, so the next script run draws a new thread_id.
blog_new_session ==
    /\ app = "blog" /\ pc = "idle" /\ nruns > 0
    /\ ui' = blog_init_session_state
    /\ gs' = <<>> /\ local' = <<>> /\ click' = "new_session"
    /\ UNCHANGED <<app, btn, pc, ran, outcome, calls, inflight, nruns>>

(* Command-line driver: run() in blogger.py.                              *)

CliInputs == {"q", "continue", "feedback"}

cli_topic ==
    /\ app = "blog_cli" /\ pc = "idle" /\ ui.at = "topic"
    /\ \E user_input \in {"q", "topic"} :
        IF user_input = "q"
        THEN /\ ui' = [at |-> "returned"] /\ click' = "q"
             /\ UNCHANGED <<pc, gs, ran, outcome, calls, local, nruns>>
        ELSE ui' = ui /\ click' = "start" /\ StreamInput
    /\ UNCHANGED <<app, btn, inflight>>

\* The first graph.stream is outside the try: an exception ends run().
cli_first_stream_done ==
    /\ app = "blog_cli" /\ StreamOver /\ ui.at = "topic"
    /\ ui' = [at |-> IF pc = "RAISED" THEN "crashed" ELSE "loop"]
    /\ BackToDriver
    /\ UNCHANGED <<app, btn, inflight, nruns, click>>

cli_loop ==
    /\ app = "blog_cli" /\ pc = "idle" /\ ui.at = "loop"
    /\ IF local = <<>>
       THEN /\ ui' = [at |-> "returned"]
            /\ UNCHANGED <<pc, gs, ran, outcome, calls, local, nruns, click>>
       ELSE /\ nruns < MaxStreams
            /\ \E user_input \in CliInputs :
                CASE user_input = "q" ->
                        /\ ui' = [at |-> "returned"] /\ click' = "q"
                        /\ UNCHANGED <<pc, gs, ran, outcome, calls, local, nruns>>
                  [] user_input = "continue" ->
                        ui' = ui /\ click' = "continue" /\ StreamResume
                  [] OTHER ->
                        /\ Count(gs.messages, "human") <= MaxFeedback
                        /\ ui' = ui /\ click' = "feedback" /\ StreamInput
    /\ UNCHANGED <<app, btn, inflight>>

cli_stream_done ==
    /\ app = "blog_cli" /\ StreamOver /\ ui.at = "loop"
    /\ ui' = [at |-> IF pc = "RAISED" THEN "returned" ELSE "loop"]
    /\ BackToDriver
    /\ UNCHANGED <<app, btn, inflight, nruns, click>>

BlogInit ==
    \/ app = "blog" /\ btn = "enabled" /\ ui = blog_init_session_state
    \/ app = "blog_cli" /\ btn = "hidden" /\ ui = [at |-> "topic"]

BlogNext ==
    \/ blog_start \/ blog_approve \/ blog_stream_done \/ blog_new_session
    \/ cli_topic \/ cli_first_stream_done \/ cli_loop \/ cli_stream_done
    \/ requirements_node \/ tools \/ planner_node
    \/ writer_node \/ editor_node \/ social_node

----------------------------------------------------------------------------
(* Data analysis agent: ai_agents/data_analysis_agent/data_analysis_agent.py *)

\* An uploaded file: whether pandas can read it.
DataFiles == [loads : BOOLEAN]

AnalysisState(file_path, user_query) ==
    [messages |-> <<>>, file_path |-> file_path, df |-> None, user_query |-> user_query,
     analysis_plan |-> "", analysis_code |-> "", analysis_result |-> "empty",
     chart_needed |-> FALSE, chart_base64 |-> None, final_response |-> ""]

\* load_data_node whose except branch does not store the message.
load_data_node_without_message ==
    /\ app = "data_analysis" /\ pc = "load_data"
    /\ IF gs.file_path.loads
       THEN NodeDone("load_data", <<>>, Spread(gs, [df |-> Some("df")]),
                     "ok", "understand_query")
       ELSE NodeDone("load_data", <<>>, Spread(gs, [df |-> None]),
                     "failed", "understand_query")
    /\ NodeFrame

load_data_node ==
    /\ app = "data_analysis" /\ pc = "load_data"
    /\ IF gs.file_path.loads
       THEN NodeDone("load_data", <<>>, Spread(gs, [df |-> Some("df")]),
                     "ok", "understand_query")
       ELSE NodeDone("load_data", <<>>,
                     Spread(gs, [df |-> None, final_response |-> "Error loading file"]),
                     "failed", "understand_query")
    /\ NodeFrame

\* No try block: an exception of llm.ainvoke leaves the node.
understand_query_node ==
    /\ app = "data_analysis" /\ pc = "understand_query"
    /\ IF gs.df = None
       THEN NodeDone("understand_query", <<>>, gs, "skipped", "generate_code")
       ELSE \/ \E chart_needed \in BOOLEAN :
                NodeDone("understand_query", <<"llm">>,
                         Spread(gs, [analysis_plan |-> "plan", chart_needed |-> chart_needed]),
                         "ok", "generate_code")
            \/ NodeRaised("understand_query", <<"llm">>)
    /\ NodeFrame

generate_code_node ==
    /\ app = "data_analysis" /\ pc = "generate_code"
    /\ IF gs.df = None
       THEN NodeDone("generate_code", <<>>, gs, "skipped", "execute_analysis")
       ELSE \/ NodeDone("generate_code", <<"llm">>, Spread(gs, [analysis_code |-> "code"]),
                        "ok", "execute_analysis")
            \/ NodeRaised("generate_code", <<"llm">>)
    /\ NodeFrame

execute_analysis_node ==
    /\ app = "data_analysis" /\ pc = "execute_analysis"
    /\ IF gs.df = None
       THEN NodeDone("execute_analysis", <<>>, gs, "skipped", "generate_chart")
       ELSE \/ NodeDone("execute_analysis", <<>>, Spread(gs, [analysis_result |-> "result"]),
                        "ok", "generate_chart")
            \/ NodeDone("execute_analysis", <<>>, Spread(gs, [analysis_result |-> "error"]),
                        "failed", "generate_chart")
    /\ NodeFrame

generate_chart_node ==
    /\ app = "data_analysis" /\ pc = "generate_chart"
    /\ IF ~gs.chart_needed \/ gs.df = None
       THEN NodeDone("generate_chart", <<>>, gs, "skipped", "create_response")
       ELSE \/ NodeDone("generate_chart", <<"llm">>, Spread(gs, [chart_base64 |-> Some("png")]),
                        "ok", "create_response")
            \/ NodeDone("generate_chart", <<"llm">>, Spread(gs, [chart_base64 |-> None]),
                        "failed", "create_response")
    /\ NodeFrame

\* No try block around llm.ainvoke here either.
create_response_node ==
    /\ app = "data_analysis" /\ pc = "create_response"
    /\ IF gs.df = None
       THEN NodeDone("create_response", <<>>, gs, "skipped", "END")
       ELSE IF gs.analysis_result = "error"
       THEN NodeDone("create_response", <<>>,
                     Spread(gs, [final_response |-> "Error during analysis"]), "ok", "END")
       ELSE \/ NodeDone("create_response", <<"llm">>,
                        Spread(gs, [final_response |-> "llm response"]), "ok", "END")
            \/ NodeRaised("create_response", <<"llm">>)
    /\ NodeFrame

run_analysis(file_path, user_query) ==
    StartRun("load_data", AnalysisState(file_path, user_query))

(* Streamlit part of the same file.                                        *)

da_init_session_state(has_api_key) ==
    [is_processing |-> FALSE, file_path |-> None, last_result |-> None,
     user_query |-> "", has_api_key |-> has_api_key]

\* The Analyze button as the script renders it for a session.
DaButton(session) ==
    IF session.file_path = None THEN "hidden"
    ELSE IF ~session.has_api_key \/ session.is_processing \/ session.user_query = ""
    THEN "disabled" ELSE "enabled"

da_upload_file ==
    /\ app = "data_analysis" /\ pc = "idle"
    /\ \E file \in DataFiles :
        /\ ui.file_path # Some(file)
        /\ ui' = [ui EXCEPT !.file_path = Some(file)]
    /\ btn' = DaButton(ui') /\ click' = "upload"
    /\ UNCHANGED <<app, pc, gs, ran, outcome, calls, inflight, local, nruns>>

da_enter_query ==
    /\ app = "data_analysis" /\ pc = "idle" /\ ui.file_path # None
    /\ ui.has_api_key /\ ~ui.is_processing
    /\ \E user_query \in Queries :
        /\ user_query # ui.user_query
        /\ ui' = [ui EXCEPT !.user_query = user_query]
    /\ btn' = DaButton(ui') /\ click' = "query"
    /\ UNCHANGED <<app, pc, gs, ran, outcome, calls, inflight, local, nruns>>

\* on_click=start_analysis, then the script run that calls run_analysis.
da_start_analysis ==
    /\ app = "data_analysis" /\ pc = "idle" /\ btn = "enabled"
    /\ nruns < MaxRuns
    /\ ui' = [ui EXCEPT !.is_processing = (ui.user_query # "")]
    /\ btn' = DaButton(ui')
    /\ IF ui'.is_processing /\ ui'.user_query # ""
       THEN run_analysis(ui.file_path[1], ui.user_query)
       ELSE UNCHANGED <<pc, gs, ran, outcome, calls, local, nruns>>
    /\ click' = "analyze"
    /\ UNCHANGED <<app, inflight>>

\* run_analysis returned or raised (caught by the script), then rerun.
da_handle_result ==
    /\ app = "data_analysis" /\ pc \in {"END", "RAISED"}
    /\ ui' = [ui EXCEPT !.is_processing = FALSE,
                        !.last_result =
                            IF pc = "RAISED" THEN None
                            ELSE Some([response |-> gs.final_response,
                                       chart |-> gs.chart_base64,
                                       analysis |-> gs.analysis_result])]
    /\ btn' = DaButton(ui')
    /\ RunOver
    /\ UNCHANGED <<app, inflight, nruns, click>>

DataInit ==
    /\ app = "data_analysis" /\ btn = "hidden"
    /\ \E key \in BOOLEAN : ui = da_init_session_state(key)

DataNext ==
    \/ da_upload_file \/ da_enter_query \/ da_start_analysis \/ da_handle_result
    \/ load_data_node \/ understand_query_node \/ generate_code_node
    \/ execute_analysis_node \/ generate_chart_node \/ create_response_node

----------------------------------------------------------------------------
(* Zerodha portfolio agent: ai_agents_mcp/zerodha_mcp_agent/zerodha_mcp_agent.py *)

AgentState == [messages |-> <<>>, holdings |-> "{}", analysis |-> ""]

\* A graph whose edge out of authenticate leads to analyze.
authenticate_node_to_analyze ==
    /\ app = "zerodha" /\ pc = "authenticate"
    /\ \/ NodeDone("authenticate", <<"kite.profile">>, gs, "ok", "analyze")
       \/ NodeDone("authenticate", <<"kite.profile">>, gs, "failed", "analyze")
    /\ NodeFrame

authenticate_node ==
    /\ app = "zerodha" /\ pc = "authenticate"
    /\ \/ NodeDone("authenticate", <<"kite.profile">>, gs, "ok", "fetch_holdings")
       \/ NodeDone("authenticate", <<"kite.profile">>, gs, "failed", "fetch_holdings")
    /\ NodeFrame

\* fetch_holdings_node without its except clause.
fetch_holdings_node_uncaught ==
    /\ app = "zerodha" /\ pc = "fetch_holdings"
    /\ \/ NodeDone("fetch_holdings", <<"kite.holdings">>,
                   Spread(gs, [holdings |-> "holdings"]), "ok", "analyze")
       \/ NodeRaised("fetch_holdings", <<"kite.holdings">>)
    /\ NodeFrame

fetch_holdings_node ==
    /\ app = "zerodha" /\ pc = "fetch_holdings"
    /\ \/ NodeDone("fetch_holdings", <<"kite.holdings">>,
                   Spread(gs, [holdings |-> "holdings"]), "ok", "analyze")
       \/ NodeDone("fetch_holdings", <<"kite.holdings">>,
                   Spread(gs, [holdings |-> "Error: e"]), "failed", "analyze")
    /\ NodeFrame

\* No try block: an exception of llm.ainvoke leaves the node.
zerodha_analyze_node ==
    /\ app = "zerodha" /\ pc = "analyze"
    /\ IF gs.holdings = "Error: e"
       THEN NodeDone("analyze", <<>>,
                     Spread(gs, [analysis |-> gs.holdings, messages |-> <<>>]),
                     "skipped", "END")
       ELSE \/ NodeDone("analyze", <<"llm">>,
                        Spread(gs, [analysis |-> "llm analysis", messages |-> <<"ai">>]),
                        "ok", "END")
            \/ NodeRaised("analyze", <<"llm">>)
    /\ NodeFrame

zerodha_init_session_state == [initialized |-> FALSE, is_processing |-> FALSE, last_result |-> None]

\* on_click=start_analysis, then the script run: run_portfolio_analyzer
\* sets the agent up once (a failure is returned as text) and invokes the graph.
zerodha_start_analysis ==
    /\ app = "zerodha" /\ pc = "idle" /\ btn = "enabled"
    /\ nruns < MaxRuns
    /\ btn' = "disabled" /\ click' = "analyze"
    /\ \/ /\ ui' = [ui EXCEPT !.is_processing = TRUE, !.initialized = TRUE]
          /\ StartRun("authenticate", AgentState)
       \/ /\ ~ui.initialized
          /\ ui' = [ui EXCEPT !.is_processing = TRUE]
          /\ pc' = "SETUP_FAILED"
          /\ UNCHANGED <<gs, ran, outcome, calls, local, nruns>>
    /\ UNCHANGED <<app, inflight>>

\* run_portfolio_analyzer returned: the analysis, or the text of the error.
zerodha_handle_result ==
    /\ app = "zerodha" /\ pc \in {"END", "RAISED", "SETUP_FAILED"}
    /\ ui' = [ui EXCEPT !.is_processing = FALSE,
                        !.last_result =
                            Some(CASE pc = "END" -> gs.analysis
                                   [] pc = "RAISED" -> "Error: e"
                                   [] OTHER -> "Initialization error")]
    /\ btn' = "enabled"
    /\ RunOver
    /\ UNCHANGED <<app, inflight, nruns, click>>

ZerodhaInit == app = "zerodha" /\ btn = "enabled" /\ ui = zerodha_init_session_state

ZerodhaNext ==
    \/ zerodha_start_analysis \/ zerodha_handle_result
    \/ authenticate_node \/ fetch_holdings_node \/ zerodha_analyze_node

----------------------------------------------------------------------------
(* Itinerary planner: ai_agents/itinerary_agent/agents/draft_agent.py,     *)
(* agents/final_agent.py and streamlit_app.py                              *)

\* Place names the model may put in a draft; one of them holds a comma.
PlaceNames == {"Louvre", "Eiffel Tower, Paris"}

\* A day-wise plan of one day.
DayPlans == [main_destination : {"Paris"}, places : SeqsUpTo(PlaceNames, 1)]

\* What strip_json(response.content) can be: a plan, JSON of another shape,
\* or text that is not JSON; and the text the node stores on an exception.
DraftTexts ==
    {[kind |-> "plan", plan |-> Some(p)] : p \in DayPlans}
    \cup {[kind |-> k, plan |-> None] : k \in {"other json", "not json"}}

DraftError == [kind |-> "Error: e", plan |-> None]

DraftState(params) ==
    [params |-> params, draft_itinerary |-> [kind |-> "", plan |-> None], messages |-> <<>>]

generate_draft_itinerary_node ==
    /\ app = "itinerary" /\ pc = "generate_draft"
    /\ \/ \E cleaned_text \in DraftTexts :
            NodeDone("generate_draft", <<"llm">>,
                     Spread(gs, [draft_itinerary |-> cleaned_text, messages |-> <<"ai">>]),
                     "ok", "END")
       \/ NodeDone("generate_draft", <<"llm">>,
                   Spread(gs, [draft_itinerary |-> DraftError, messages |-> <<>>]),
                   "failed", "END")
    /\ NodeFrame

run_draft_agent(params) == StartRun("generate_draft", DraftState(params))

FinalState(params, user_modifications, anything_else) ==
    [params |-> params, enhanced |-> (anything_else # ""),
     user_modifications |-> user_modifications, raw_itinerary |-> "",
     formatted_itinerary |-> "", locations |-> <<>>, messages |-> <<>>]

generate_itinerary_node ==
    /\ app = "itinerary" /\ pc = "generate_itinerary"
    /\ \/ NodeDone("generate_itinerary", <<"llm">>,
                   Spread(gs, [raw_itinerary |-> "itinerary", messages |-> <<"ai">>]),
                   "ok", "extract_locations")
       \/ NodeDone("generate_itinerary", <<"llm">>,
                   Spread(gs, [raw_itinerary |-> "Error: e", messages |-> <<>>]),
                   "failed", "extract_locations")
    /\ NodeFrame

\* The geocoder is called once per extracted location, one after the
\* other; a location without coordinates is left out.
extract_locations_node ==
    /\ app = "itinerary" /\ pc = "extract_locations"
    /\ IF gs.raw_itinerary = "Error: e"
       THEN NodeDone("extract_locations", <<>>, Spread(gs, [locations |-> <<>>]),
                     "skipped", "format_output")
       ELSE \/ \E found \in SeqsUpTo(BOOLEAN, 2) :
                NodeDone("extract_locations",
                         <<"llm">> \o [i \in DOMAIN found |-> "geocode"],
                         Spread(gs, [locations |-> SelectSeq(found, LAMBDA c : c)]),
                         "ok", "format_output")
            \/ NodeDone("extract_locations", <<"llm">>, Spread(gs, [locations |-> <<>>]),
                        "failed", "format_output")
    /\ NodeFrame

format_output_node ==
    /\ app = "itinerary" /\ pc = "format_output"
    /\ IF gs.raw_itinerary = "Error: e"
       THEN NodeDone("format_output", <<>>,
                     Spread(gs, [formatted_itinerary |-> gs.raw_itinerary]), "skipped", "END")
       ELSE NodeDone("format_output", <<>>,
                     Spread(gs, [formatted_itinerary |-> "formatted"]), "ok", "END")
    /\ NodeFrame

run_final_agent(params, user_modifications, anything_else) ==
    StartRun("generate_itinerary", FinalState(params, user_modifications, anything_else))

(* streamlit_app.py                                                        *)

itinerary_init_session_state(has_api_key) ==
    [is_processing |-> FALSE, last_result |-> None, locations |-> <<>>,
     workflow_stage |-> "input", draft_data |-> None, trip_params |-> None,
     anything_else |-> "", edited_draft |-> None, widgets |-> None,
     has_api_key |-> has_api_key]

\* The text of the "Places to Visit" box, as the pieces between its commas.
SplitComma(name) == IF name = "Eiffel Tower, Paris" THEN <<"Eiffel Tower", "Paris">> ELSE <<name>>

RECURSIVE CommaPieces(_)
CommaPieces(places) ==
    IF places = <<>> THEN <<>> ELSE SplitComma(Head(places)) \o CommaPieces(Tail(places))

\* The widgets of the draft_review stage for a stored draft: None when the
\* draft does not parse or the script fails on its shape.
DraftWidgets(draft_data) ==
    IF draft_data.kind = "plan"
    THEN Some([main_dest |-> draft_data.plan[1].main_destination,
               places |-> CommaPieces(draft_data.plan[1].places)])
    ELSE None

\* What the user may leave in the boxes of a day.
WidgetEdits == [main_dest : {"Paris", "Lyon"}, places : {<<"Louvre">>, <<"Orsay", "">>}]

\* edited_draft as the script builds it: pieces stripped, empty ones dropped.
EditedDraft(widgets) ==
    [main_destination |-> widgets.main_dest,
     places |-> SelectSeq(widgets.places, LAMBDA piece : piece # "")]

\* The Generate / Approve button as the script renders it for a session.
ItineraryButton(session) ==
    IF session.workflow_stage = "input" \/ session.widgets # None
    THEN (IF session.is_processing THEN "disabled" ELSE "enabled")
    ELSE "hidden"

\* on_click=start_draft_generation (a missing field or key: an error and
\* nothing else), then the script run of the input stage.
start_draft_generation ==
    /\ app = "itinerary" /\ pc = "idle" /\ ui.workflow_stage = "input"
    /\ btn = "enabled" /\ nruns < MaxRuns
    /\ \E filled \in BOOLEAN :
        IF ~filled \/ ~ui.has_api_key
        THEN UNCHANGED <<ui, btn, pc, gs, ran, outcome, calls, local, nruns>>
        ELSE /\ ui' = [ui EXCEPT !.is_processing = TRUE, !.trip_params = Some("params")]
             /\ btn' = ItineraryButton(ui')
             /\ run_draft_agent("params")
    /\ click' = "generate"
    /\ UNCHANGED <<app, inflight>>

\* run_draft_agent returned; the rerun renders the draft_review stage.
draft_done ==
    /\ app = "itinerary" /\ pc = "END" /\ ui.workflow_stage = "input"
    /\ ui' = [ui EXCEPT !.draft_data = Some(gs.draft_itinerary),
                        !.workflow_stage = "draft_review",
                        !.is_processing = FALSE,
                        !.widgets = DraftWidgets(gs.draft_itinerary)]
    /\ btn' = ItineraryButton(ui')
    /\ RunOver
    /\ UNCHANGED <<app, inflight, nruns, click>>

\* The user changes the boxes of the day; the script reruns.
edit_draft ==
    /\ app = "itinerary" /\ pc = "idle" /\ ui.workflow_stage = "draft_review"
    /\ ui.widgets # None
    /\ \E edit \in WidgetEdits :
        /\ ui.widgets # Some(edit)
        /\ ui' = [ui EXCEPT !.widgets = Some(edit)]
    /\ click' = "edit"
    /\ UNCHANGED <<app, btn, pc, gs, ran, outcome, calls, inflight, local, nruns>>

\* approve_and_generate storing the draft as generated instead of the
\* contents of the boxes.
approve_and_generate_unedited ==
    /\ app = "itinerary" /\ pc = "idle" /\ ui.workflow_stage = "draft_review"
    /\ btn = "enabled" /\ nruns < MaxRuns
    /\ \E anything_else \in {"", "night market"} :
        /\ ui' = [ui EXCEPT !.is_processing = TRUE,
                            !.edited_draft = Some(ui.draft_data[1].plan[1]),
                            !.anything_else = anything_else]
        /\ run_final_agent(ui.trip_params[1], ui'.edited_draft[1], ui'.anything_else)
    /\ btn' = ItineraryButton(ui')
    /\ click' = "approve"
    /\ UNCHANGED <<app, inflight>>

\* on_click=approve_and_generate, then the script run that calls
\* run_final_agent with the stored edited_draft.
approve_and_generate ==
    /\ app = "itinerary" /\ pc = "idle" /\ ui.workflow_stage = "draft_review"
    /\ btn = "enabled" /\ nruns < MaxRuns
    /\ \E anything_else \in {"", "night market"} :
        /\ ui' = [ui EXCEPT !.is_processing = TRUE,
                            !.edited_draft = Some(EditedDraft(ui.widgets[1])),
                            !.anything_else = anything_else]
        /\ run_final_agent(ui.trip_params[1], ui'.edited_draft[1], ui'.anything_else)
    /\ btn' = ItineraryButton(ui')
    /\ click' = "approve"
    /\ UNCHANGED <<app, inflight>>

\* on_click=go_back, then the script run of the input stage.
go_back ==
    /\ app = "itinerary" /\ pc = "idle" /\ ui.workflow_stage = "draft_review"
    /\ ui.widgets # None
    /\ ui' = [ui EXCEPT !.workflow_stage = "input", !.draft_data = None, !.widgets = None]
    /\ btn' = ItineraryButton(ui')
    /\ click' = "back"
    /\ UNCHANGED <<app, pc, gs, ran, outcome, calls, inflight, local, nruns>>

\* "Start Over", shown when the stored draft is not JSON.
start_over ==
    /\ app = "itinerary" /\ pc = "idle" /\ ui.workflow_stage = "draft_review"
    /\ ui.draft_data[1].kind \in {"not json", "Error: e"}
    /\ ui' = [ui EXCEPT !.workflow_stage = "input", !.draft_data = None, !.widgets = None]
    /\ btn' = ItineraryButton(ui')
    /\ click' = "start_over"
    /\ UNCHANGED <<app, pc, gs, ran, outcome, calls, inflight, local, nruns>>

\* run_final_agent returned; the rerun renders the final stage.
final_done ==
    /\ app = "itinerary" /\ pc = "END" /\ ui.workflow_stage = "draft_review"
    /\ ui' = [ui EXCEPT !.last_result = Some(gs.formatted_itinerary),
                        !.locations = gs.locations,
                        !.workflow_stage = "final",
                        !.is_processing = FALSE,
                        !.widgets = None]
    /\ btn' = ItineraryButton(ui')
    /\ RunOver
    /\ UNCHANGED <<app, inflight, nruns, click>>

\* on_click=reset_workflow ("Plan Another Trip").
reset_workflow ==
    /\ app = "itinerary" /\ pc = "idle" /\ ui.workflow_stage = "final"
    /\ ui' = [ui EXCEPT !.workflow_stage = "input", !.last_result = None,
                        !.locations = <<>>, !.draft_data = None,
                        !.trip_params = None, !.anything_else = ""]
    /\ btn' = ItineraryButton(ui')
    /\ click' = "reset"
    /\ UNCHANGED <<app, pc, gs, ran, outcome, calls, inflight, local, nruns>>

ItineraryInit ==
    /\ app = "itinerary" /\ btn = "enabled"
    /\ \E key \in BOOLEAN : ui = itinerary_init_session_state(key)

ItineraryNext ==
    \/ start_draft_generation \/ draft_done \/ edit_draft \/ approve_and_generate
    \/ go_back \/ start_over \/ final_done \/ reset_workflow
    \/ generate_draft_itinerary_node \/ generate_itinerary_node
    \/ extract_locations_node \/ format_output_node

----------------------------------------------------------------------------
(* News aggregator: ai_agents/news_aggregator_agent/main.py                *)
(*                                                                         *)
(* The feed is modelled by its length; an article by its index.            *)

NewsState(all_news, selected_news) ==
    [all_news |-> all_news, selected_news |-> selected_news, deep_dive_data |-> <<>>,
     analysis |-> "", error |-> ""]

fetch_news_node ==
    /\ app = "news" /\ pc = "fetch_news"
    /\ \/ \E new_articles \in 0..MaxNew :
            NodeDone("fetch_news", <<"newsdata.io">>,
                     Spread(gs, [all_news |-> new_articles + gs.all_news, error |-> ""]),
                     "ok", "END")
       \/ NodeDone("fetch_news", <<"newsdata.io">>, Spread(gs, [error |-> "e"]),
                   "failed", "END")
    /\ NodeFrame

deep_dive_node ==
    /\ app = "news" /\ pc = "deep_dive"
    /\ IF gs.selected_news = None
       THEN NodeDone("deep_dive", <<>>,
                     Spread(gs, [deep_dive_data |-> <<>>, error |-> "No article selected"]),
                     "skipped", "analyze")
       ELSE \/ \E results \in SeqsUpTo({"hit"}, 1) :
                NodeDone("deep_dive", <<"duckduckgo">>,
                         Spread(gs, [deep_dive_data |-> results, error |-> ""]),
                         "ok", "analyze")
            \/ NodeDone("deep_dive", <<"duckduckgo">>,
                        Spread(gs, [deep_dive_data |-> <<>>, error |-> "e"]),
                        "failed", "analyze")
    /\ NodeFrame

\* The LLM's report on an article: different articles, different reports.
ReportOn(article) == "report on article " \o ToString(article)

news_analyze_node ==
    /\ app = "news" /\ pc = "analyze"
    /\ IF gs.error # ""
       THEN NodeDone("analyze", <<>>, Spread(gs, [analysis |-> "Error: " \o gs.error]),
                     "skipped", "END")
       ELSE IF gs.selected_news = None
       THEN NodeDone("analyze", <<>>, Spread(gs, [analysis |-> "No article selected"]),
                     "skipped", "END")
       ELSE \/ NodeDone("analyze", <<"llm">>,
                        Spread(gs, [analysis |-> ReportOn(gs.selected_news[1]), error |-> ""]),
                        "ok", "END")
            \/ NodeDone("analyze", <<"llm">>,
                        Spread(gs, [analysis |-> "Error: e", error |-> "e"]), "failed", "END")
    /\ NodeFrame

news_init_session_state ==
    [all_news |-> 0, selected_news |-> None, analysis |-> None, is_processing |-> FALSE]

\* fetch_latest(), behind the Fetch and the More button (More is disabled
\* while the feed is empty).
news_fetch ==
    /\ app = "news" /\ pc = "idle" /\ nruns < MaxRuns
    /\ \E button \in {"fetch", "more"} :
        /\ button = "more" => ui.all_news > 0
        /\ click' = button
    /\ StartRun("fetch_news", NewsState(ui.all_news, None))
    /\ UNCHANGED <<app, ui, btn, inflight>>

news_fetch_done ==
    /\ app = "news" /\ pc = "END" /\ click \in {"fetch", "more"}
    /\ ui' = IF gs.error # "" THEN ui
             ELSE IF click = "fetch"
             THEN [ui EXCEPT !.all_news = gs.all_news, !.analysis = None,
                             !.selected_news = None]
             ELSE [ui EXCEPT !.all_news = gs.all_news]
    /\ RunOver
    /\ UNCHANGED <<app, btn, inflight, nruns, click>>

\* "Dive" on an article of the feed, then the rerun that runs the deep dive.
news_dive ==
    /\ app = "news" /\ pc = "idle" /\ nruns < MaxRuns
    /\ \E index \in 1..ui.all_news :
        /\ ui' = [ui EXCEPT !.selected_news = Some(index), !.is_processing = TRUE]
        /\ StartRun("deep_dive", NewsState(ui.all_news, Some(index)))
    /\ click' = "dive"
    /\ UNCHANGED <<app, btn, inflight>>

news_dive_done ==
    /\ app = "news" /\ pc = "END" /\ click = "dive"
    /\ ui' = [ui EXCEPT !.is_processing = FALSE,
                        !.analysis = IF gs.error # "" THEN @ ELSE Some(gs.analysis)]
    /\ RunOver
    /\ UNCHANGED <<app, btn, inflight, nruns, click>>

NewsInit == app = "news" /\ btn = "enabled" /\ ui = news_init_session_state

NewsNext ==
    \/ news_fetch \/ news_fetch_done \/ news_dive \/ news_dive_done
    \/ fetch_news_node \/ deep_dive_node \/ news_analyze_node

----------------------------------------------------------------------------

Init ==
    /\ pc = "idle" /\ gs = <<>> /\ ran = <<>> /\ outcome = <<>>
    /\ calls = <<>> /\ inflight = 0 /\ local = <<>> /\ nruns = 0 /\ click = "none"
    /\ (BankInit \/ PdfInit \/ AudioInit \/ GithubInit \/ BlogInit
        \/ DataInit \/ ZerodhaInit \/ ItineraryInit \/ NewsInit)

Next == BankNext \/ PdfNext \/ AudioNext \/ GithubNext \/ BlogNext
        \/ DataNext \/ ZerodhaNext \/ ItineraryNext \/ NewsNext

Spec == Init /\ [][Next]_vars

----------------------------------------------------------------------------
(* Properties                                                              *)

Last(s) == s[Len(s)]

IsPrefix(s, t) == Len(s) <= Len(t) /\ \A i \in DOMAIN s : s[i] = t[i]

\* The steps whose body has no try block around its external call.
StepsWithoutHandler ==
    CASE app = "data_analysis" -> {"understand_query", "generate_code", "create_response"}
      [] app = "zerodha" -> {"analyze"}
      [] app \in {"blog", "blog_cli"} ->
            {"requirements", "planner", "writer", "editor", "social"}
      [] OTHER -> {}

\* The agents whose state carries an errors list.
AppsWithErrors == {"bank", "pdf_rag", "audio_rag", "github"}

GraphOrders ==
    CASE app = "bank" ->
            {<<"load_pdf", "parse_transactions", "categorize_transactions",
               "analyze_spending", "prepare_visualizations">>}
      [] app = "data_analysis" ->
            {<<"load_data", "understand_query", "generate_code", "execute_analysis",
               "generate_chart", "create_response">>}
      [] app = "itinerary" ->
            {<<"generate_draft">>,
             <<"generate_itinerary", "extract_locations", "format_output">>}
      [] app = "news" -> {<<"fetch_news">>, <<"deep_dive", "analyze">>}
      [] app = "github" -> {<<"query_mcp", "generate_explanation">>}
      [] app = "zerodha" -> {<<"authenticate", "fetch_holdings", "analyze">>}
      [] app = "pdf_rag" ->
            {<<"load_pdf", "chunk_text", "generate_embeddings">>,
             <<"process_query", "generate_answer">>}
      [] app = "audio_rag" ->
            {<<"transcribe_audio", "chunk_text", "generate_embeddings">>,
             <<"process_query", "generate_answer">>}
      [] OTHER -> {}

\* The pairs of blog steps that can follow each other inside one
\* invocation: the tool loops; every other edge ends at an interrupt.
BlogLoopEdges ==
    {<<"requirements", "tools">>, <<"tools", "requirements">>, <<"planner", "tools">>}

\* C2 (as amended): an invocation of a graph other than the blog writer
\* executes its steps in the order of the graph's edges, each at most
\* once, and is over only at END or at a step whose exception is not caught; an
\* invocation of the blog writer may execute requirements more than once
\* (tool loop), runs writer, editor and social at most once and alone, and
\* ends at an interrupt, at END or at a raising step.
C2_StepsFollowEdges ==
    /\ pc \in {"idle", "END", "RAISED", "INTERRUPT", "RETURNED", "SETUP_FAILED", "run_agent"}
        \/ app \in {"blog", "blog_cli"} \/ pc \in UNION {Range(order) : order \in GraphOrders}
        \/ pc = "query_mcp.tool_loop"
    /\ IF app \in {"blog", "blog_cli"}
       THEN /\ \A i \in 1..(Len(ran) - 1) : <<ran[i], ran[i + 1]>> \in BlogLoopEdges
            /\ pc \in {"requirements", "tools", "planner", "writer", "editor", "social"}
                   => ran = <<>> \/ <<Last(ran), pc>> \in BlogLoopEdges
            /\ pc = "END" => ran \in {<<>>, <<"social">>}
       ELSE \E order \in GraphOrders :
               /\ IsPrefix(ran, order)
               /\ pc = "END" => ran = order
               /\ pc = "RAISED" => Last(ran) \in StepsWithoutHandler
               /\ pc \notin {"idle", "END", "RAISED", "RETURNED", "SETUP_FAILED", "run_agent"}
                       => Len(ran) < Len(order)
                          /\ order[Len(ran) + 1] = IF pc = "query_mcp.tool_loop" THEN "query_mcp" ELSE pc

\* An invocation ran all the steps of its graph, in order, to END.
C2_Witness ==
    app = "zerodha" /\ pc = "END" /\ ran = <<"authenticate", "fetch_holdings", "analyze">>

\* C2 as stated: every step at most once, and the invocation reaches END
\* (it neither stops at an interrupt nor at an exception).
C2_EachStepOnceAndEnd ==
    /\ \A i, j \in DOMAIN ran : ran[i] = ran[j] => i = j
    /\ pc \notin {"INTERRUPT", "RAISED"}

\* The blog steps behind an interrupt.
GatedSteps == {"planner", "writer", "editor", "social"}

\* A gated step starts only as the first step of an invocation that the
\* human's resume action began, on a thread stopped in front of that step.
StartsOnResumeOnly ==
    (app \in BlogApps /\ pc' \in GatedSteps)
        => /\ pc = "idle" /\ nruns' = nruns + 1
           /\ click' \in {"continue", "feedback"}
           /\ local = <<pc'>>

\* The first invocation of a thread executes requirements and tools only,
\* and when it returns the thread is stopped in front of planner.
FirstInvocationStopsBeforePlanner ==
    (app \in BlogApps /\ click = "start")
        => /\ Range(ran) \subseteq {"requirements", "tools"}
           /\ pc \in {"idle", "requirements", "tools", "INTERRUPT", "RAISED"}
           /\ pc = "INTERRUPT" => local = <<"planner">>
           /\ pc = "RAISED" => local = <<"requirements">>
           /\ pc = "idle" => local \in {<<"planner">>, <<"requirements">>}

\* C3: in the blog graph none of planner, writer, editor and social starts
\* executing unless the human issued a resume action after the interrupt
\* in front of that step; the first invocation runs only requirements and
\* its tool calls and stops before planner.
C3_GatedStepsNeedResume ==
    [][StartsOnResumeOnly]_vars /\ []FirstInvocationStopsBeforePlanner

\* The human resumed four times and the last gated step has run.
C3_Witness ==
    app \in BlogApps /\ click = "continue" /\ pc = "END" /\ ran = <<"social">>

\* C4: after an interrupt a resume action, continue or feedback, runs the
\* pending step next (so that no completed step runs again).
C4_ResumeRunsPendingStep ==
    [][(/\ app \in BlogApps /\ pc = "idle" /\ nruns' = nruns + 1
        /\ click' \in {"continue", "feedback"}
        /\ local # <<>> /\ local[1] \in GatedSteps)
            => pc' = local[1]]_vars

DisablingApps == {"pdf_rag", "audio_rag", "github", "data_analysis", "zerodha", "itinerary"}

HasProcessingFlag == "is_processing" \in DOMAIN ui

\* An agent run starts from an idle session whose is_processing is false.
RunStartsWhenNotProcessing ==
    nruns' # nruns =>
        /\ pc = "idle" /\ nruns' = nruns + 1
        /\ HasProcessingFlag => ~ui.is_processing

\* Inside a run an external call is issued only after the previous one
\* has returned.
CallIssuedAfterReturn ==
    (inflight' > inflight \/ Len(calls') > Len(calls)) => inflight = 0

FinalSteps == {"generate_itinerary", "extract_locations", "format_output"}

\* run_final_agent is called by the Approve button of the draft_review
\* stage, for a stored draft that parsed, with the boxes' contents.
FinalAgentInvokedOnApprove ==
    (app = "itinerary" /\ pc' = "generate_itinerary")
        => /\ pc = "idle" /\ click' = "approve"
           /\ ui.workflow_stage = "draft_review"
           /\ ui.draft_data # None /\ ui.draft_data[1].kind = "plan"
           /\ ui.widgets # None
           /\ gs'.user_modifications = EditedDraft(ui.widgets[1])

\* While the final graph runs the session is in draft_review, the last
\* button pressed is Approve, and the graph works on the edited draft.
FinalAgentRunsInDraftReview ==
    (app = "itinerary" /\ (pc \in FinalSteps \/ (ran # <<>> /\ ran[1] \in FinalSteps)))
        => /\ click = "approve" /\ ui.workflow_stage = "draft_review"
           /\ ui.draft_data # None
           /\ Some(gs.user_modifications) = ui.edited_draft
           /\ gs.user_modifications = EditedDraft(ui.widgets[1])

\* C7: the final itinerary agent is invoked only from the draft_review
\* stage after the user pressed Approve, and it receives the day-wise
\* draft as edited by the user; it is never invoked from the input stage,
\* after Back, or before a draft was generated.
C7_FinalAgentOnlyAfterApprove ==
    [][FinalAgentInvokedOnApprove]_vars /\ []FinalAgentRunsInDraftReview

\* The final agent ran on a draft whose destination the user had changed.
C7_Witness ==
    /\ app = "itinerary" /\ pc = "END" /\ ran[1] = "generate_itinerary"
    /\ gs.user_modifications.main_destination = "Lyon"
    /\ ui.draft_data[1].plan[1].main_destination = "Paris"

RagApps == {"pdf_rag", "audio_rag"}

\* The steps an invocation of a RAG graph is to execute, by its mode.
FlowOf(mode) ==
    IF app = "pdf_rag"
    THEN (IF mode = "process_document"
          THEN <<"load_pdf", "chunk_text", "generate_embeddings">>
          ELSE <<"process_query", "generate_answer">>)
    ELSE (IF mode = "process_audio"
          THEN <<"transcribe_audio", "chunk_text", "generate_embeddings">>
          ELSE <<"process_query", "generate_answer">>)

\* C8: in the PDF and audio RAG graphs an invocation with mode
\* process_document (process_audio) executes exactly load/transcribe, then
\* chunk_text, then generate_embeddings and never a query step; an
\* invocation with another mode executes exactly process_query, then
\* generate_answer and never a processing step.
C8_FlowsDisjointAndOrdered ==
    (app \in RagApps /\ pc # "idle") =>
        LET flow == FlowOf(gs.mode) IN
        /\ IsPrefix(ran, flow)
        /\ IF pc = "END" THEN ran = flow
           ELSE Len(ran) < Len(flow) /\ pc = flow[Len(ran) + 1]

\* A processing invocation ran its three steps.
C8_Witness ==
    /\ app = "audio_rag" /\ pc = "END" /\ gs.mode = "process_audio"
    /\ ran = <<"transcribe_audio", "chunk_text", "generate_embeddings">>

\* The message process_query records when there is no vector store.
NoStoreMessage ==
    IF app = "pdf_rag" THEN "No document has been processed yet"
    ELSE "No audio has been processed yet"

\* C9: in the PDF and audio RAG agents a query run without a vector store
\* records the error "No document (audio) has been processed yet",
\* performs no retrieval and no LLM call, and returns the fixed fallback
\* answer with an empty citations list.
C9_QueryWithoutStore ==
    (/\ app \in RagApps /\ pc \in {"generate_answer", "END"}
     /\ gs.mode = "query" /\ gs.vector_store = None)
        => /\ gs.errors # <<>>
           /\ \A i \in DOMAIN gs.errors : gs.errors[i] = NoStoreMessage
           /\ calls = <<>>
           /\ pc = "END" =>
                /\ gs.answer =
                     Some("I couldn't find relevant information to answer your question.")
                /\ gs.citations = Some(<<>>)
                /\ gs.retrieved_chunks = None

\* A query run without a vector store has returned.
C9_Witness ==
    /\ app = "pdf_rag" /\ pc = "END" /\ gs.mode = "query" /\ gs.vector_store = None
    /\ ran = <<"process_query", "generate_answer">>

\* The keys of the dictionary run_agent returns on success.
ResultKeys ==
    {"repo_url", "user_query", "explanation", "tool_results", "available_tools",
     "errors", "success"}

\* C10: the GitHub explorer's run_agent never raises: for every failure
\* (server start, session initialisation, tool listing, graph execution)
\* it returns a dictionary with the same keys as on success, and in every
\* returned dictionary success is true if and only if errors is empty.
C10_RunAgentAlwaysReturns ==
    app = "github" =>
        /\ pc # "RAISED"
        /\ \A i \in DOMAIN outcome : outcome[i] # "raised"
        /\ pc = "RETURNED" =>
            /\ DOMAIN gs = ResultKeys
            /\ gs.success <=> gs.errors = <<>>

\* run_agent returned its failure dictionary after the session could not
\* be initialised.
C10_Witness ==
    /\ app = "github" /\ pc = "RETURNED" /\ ~gs.success
    /\ calls = <<"stdio_client", "session.initialize">>

\* C11: in the bank pipeline, if categorize_transactions fails,
\* categorized_transactions falls back to the parsed transactions and the
\* following analyze_spending step still produces total_debit,
\* total_credit and net_balance_change from them.
C11_AnalysisAfterFailedCategorization ==
    (/\ app = "bank" /\ Len(ran) >= 4
     /\ ran[3] = "categorize_transactions" /\ outcome[3] = "failed")
        => /\ gs.categorized_transactions = gs.transactions
           /\ gs.total_debit = Some(SumAmount(SelectSeq(gs.transactions[1], IsDebit)))
           /\ gs.total_credit = Some(SumAmount(SelectSeq(gs.transactions[1], IsCredit)))
           /\ gs.net_balance_change # None

\* The state load_data_node hands on when the file could not be loaded.
LoadFailedState ==
    Spread(AnalysisState(gs.file_path, gs.user_query),
           [df |-> None, final_response |-> "Error loading file"])

\* After a failed load every later step is skipped, without an LLM call,
\* and the state stays as load_data_node left it.
LaterStepsLeaveState ==
    (app = "data_analysis" /\ ran # <<>> /\ outcome[1] = "failed")
        => /\ gs = LoadFailedState
           /\ calls = <<>>
           /\ \A i \in 2..Len(ran) : outcome[i] = "skipped"
           /\ pc # "RAISED"

\* run_analysis returns the message of load_data_node as its response.
LoadErrorReturned ==
    (/\ app = "data_analysis" /\ pc = "END" /\ pc' = "idle"
     /\ outcome[1] = "failed")
        => ui'.last_result =
             Some([response |-> "Error loading file", chart |-> None, analysis |-> "empty"])

\* C12: in the data-analysis agent, if load_data_node fails, df is None,
\* every later step leaves the state unchanged and makes no LLM call, and
\* the returned response is the "Error loading file" message set by
\* load_data_node.
C12_LoadFailureSkipsPipeline ==
    []LaterStepsLeaveState /\ [][LoadErrorReturned]_vars

\* A run on a file that could not be loaded went through all six steps.
C12_Witness ==
    /\ app = "data_analysis" /\ pc = "END" /\ Len(ran) = 6
    /\ outcome[1] = "failed" /\ gs.df = None

\* C13: after a run of the bank graph the final errors list holds exactly
\* one entry for each step that failed, and no message more than once.
C13_OneErrorPerFailedStep ==
    (app = "bank" /\ pc = "END")
        => /\ Len(gs.errors) = Cardinality({i \in DOMAIN ran : outcome[i] = "failed"})
           /\ \A i, j \in DOMAIN gs.errors : gs.errors[i] = gs.errors[j] => i = j

\* C14: in the blog Streamlit app, after every user action current_stage
\* names the step the checkpointed graph will execute next, and it is
\* "complete" only when the graph has no pending step.
C14_StageNamesPendingStep ==
    (app = "blog" /\ pc = "idle")
        => /\ ui.current_stage \in ApprovalStages => local = <<ui.current_stage>>
           /\ ui.current_stage = "complete" => local = <<>>

\* C15: in the news aggregator, after any sequence of Fetch, More and Dive
\* actions, including dives that fail, the session's analysis is either
\* empty or the result of the deep dive on the session's selected_news.
C15_AnalysisIsOfSelectedArticle ==
    (app = "news" /\ pc = "idle" /\ ui.analysis # None)
        => /\ ui.selected_news # None
           /\ ui.analysis = Some(ReportOn(ui.selected_news[1]))

\* C16: in the PDF and audio RAG apps workflow_stage is "query" only
\* while the session's vector_store holds a collection created by a
\* processing run.
C16_QueryStageHasStore ==
    (app \in RagApps /\ ui.workflow_stage = "query") => ui.vector_store # None

\* C17: in every reachable state of the blog graph the artefacts are
\* produced in stage order: blog_draft is set only if outline is set,
\* edited_blog only if blog_draft is set, and social_posts only if
\* edited_blog is set.
C17_ArtefactsInStageOrder ==
    (app \in BlogApps /\ gs # <<>>)
        => /\ gs.blog_draft # None => gs.outline # None
           /\ gs.edited_blog # None => gs.blog_draft # None
           /\ gs.social_posts # None => gs.edited_blog # None

\* The thread has all four artefacts.
C17_Witness ==
    /\ app \in BlogApps /\ gs # <<>>
    /\ gs.social_posts # None /\ gs.edited_blog # None
    /\ gs.blog_draft # None /\ gs.outline # None

====
